---- MODULE Spec2Model ----
(***************************************************************************)
(* The high-availability state layer of the lamp web application:          *)
(*   LampRepository      (src/src/database/repository.py)   the store tier *)
(*   LampCacheService    (src/src/services/cache.py)        the cache tier *)
(*   HALampRepository    (src/src/database/ha_repository.py) the facade    *)
(*   DatabaseSyncService (src/src/services/sync.py)         the worker     *)
(*                                                                         *)
(* Every call of db_config.execute_query / execute_command can fail on its *)
(* own (connection loss, timeout, query error).  A handler therefore takes *)
(* an outcome record f that says, for each store call it makes, whether    *)
(* that call succeeds; the handler's try/except structure decides what a   *)
(* failure does.  A result is a record with a field exc: TRUE means the    *)
(* call raised.                                                            *)
(*                                                                         *)
(* Time is a logical clock: one tick per toggle (the timestamp of that     *)
(* toggle).  user_agent and ip_address are carried through by the code     *)
(* unread and are left out.                                                *)
(***************************************************************************)
EXTENDS Integers, Sequences, FiniteSets, TLC

\* ---------------------------------------------------------------- bounds
\* Toggles issued in a run (each takes one tick of the logical clock).
MaxToggles == 2
\* Calendar days a run spans.
MaxDay == 2
\* Largest limit passed to get_recent_activities.
MaxLimit == 2
\* Worker threads start_sync_service may create in a run.
MaxWorkers == 2
\* The operations of one behaviour that write: toggles, sync iterations,
\* resets and midnights.
MaxOps == 2
\* Activity rows a store holds when the process starts.
StoredRows == 2
\* Toggles issued to the cache tier itself in a run.
MaxCacheToggles == 2
\* Threads that call the cache at the same time.
MaxThreads == 3

\* ------------------------------------------------------- program constants
\* cache.py:159 keeps the last 100 activities.
ActivityCap == 100
\* repository.py:249 and cache.py:228: the dashboard shows 5 activities.
DashboardRecent == 5
\* sync.py:29-31
SyncInterval == 30
MaxRetryInterval == 300
InitialRetryInterval == 5
\* routers.py:97-98: the largest limit /lamp/activities passes on.
HttpLimitMax == 100

\* ---------------------------------------------------------------- values
\* Python's None, where a string is expected.
None == "None"
\* None where a date is expected, and where a timestamp is expected.
NoDate == 0
Never == -1
SessionIds == {"s1", "s2"}
\* A request may carry no session id.
SessionInputs == SessionIds \cup {None}
Days == 1..MaxDay
Limits == 0..MaxLimit

\* Python's  x or "unknown"  for an optional session id.
OrUnknown(session_id) == IF session_id = None THEN "unknown" ELSE session_id

\* "on" if b else "off"
Label(b) == IF b THEN "on" ELSE "off"

Min(a, b) == IF a <= b THEN a ELSE b

\* reversed(s)
Reversed(s) == [i \in 1..Len(s) |-> s[Len(s) + 1 - i]]

\* Python's s[-n:] : the last n elements for 0 < n < len(s); for n = 0 the
\* index -0 is 0 and the slice is the whole list; for n < 0 it is s[|n|:].
SliceLast(s, n) ==
    IF n = 0 THEN s
    ELSE IF n > 0
         THEN IF n >= Len(s) THEN s ELSE SubSeq(s, Len(s) - n + 1, Len(s))
         ELSE IF -n >= Len(s) THEN << >> ELSE SubSeq(s, 1 - n, Len(s))

\* LIMIT n returning one row less.
SqlLimitShort(s, n) == SubSeq(s, 1, Min(Len(s), n) - 1)

\* SQL  ... LIMIT n  on a result list.
SqlLimit(s, n) == IF n >= Len(s) THEN s ELSE SubSeq(s, 1, n)

\* A result that raised: no value, the tier's state as it was left.
NoValue == [none |-> TRUE]

\* ================================================================ the store
\* The relational store is the record
\*   [is_on, last_updated, client_info,        lamp_status row id = 1
\*    activities,                              lamp_activities, insertion order
\*    statistics]                              lamp_statistics, a set of rows
\* database.py:149-201 creates the tables and row 1 before the store is used.

\* database.py:149-208  create_tables: the empty tables and row 1 of
\* lamp_status.
NewStore(is_on) ==
    [is_on |-> is_on, last_updated |-> 0, client_info |-> None,
     activities |-> << >>, statistics |-> {}]

\* repository.py:73  the client_info column written by a toggle.
ClientInfo(session_id) == "Session: " \o OrUnknown(session_id)

\* repository.py:20-60  get_current_state: one SELECT; raises when it fails.
\* change_count is always 0 (line 54).
RepoGetCurrentState(db, ok) ==
    IF ok
    THEN [exc |-> FALSE,
          val |-> [is_on |-> db.is_on, last_changed |-> db.last_updated,
                   last_session_id |-> db.client_info, change_count |-> 0]]
    ELSE [exc |-> TRUE, val |-> NoValue]

\* repository.py:132-138  COUNT(DISTINCT session_id) over today's activity
\* rows; SQL does not count NULL.
DbUniqueSessions(db, day) ==
    Cardinality({db.activities[i].session_id :
                    i \in {j \in 1..Len(db.activities) : db.activities[j].day = day}}
                \ {None})

\* repository.py:109-166  _update_daily_stats.  ok: every statement of it
\* succeeds; a failure anywhere leaves the table as it was (the write is the
\* last statement) and is swallowed (line 164-166).
RepoUpdateDailyStats(db, action, ok, today) ==
    LET rows == {s \in db.statistics : s.date = today}
        on   == IF action = "on" THEN 1 ELSE 0
        off  == IF action = "off" THEN 1 ELSE 0
    IN  IF ~ok THEN db
        ELSE IF rows # {}
        THEN [db EXCEPT !.statistics =
                 {IF s.date = today
                  THEN [s EXCEPT !.total_toggles = @ + 1,
                                 !.on_count = @ + on,
                                 !.off_count = @ + off,
                                 !.unique_sessions = DbUniqueSessions(db, today)]
                  ELSE s : s \in db.statistics}]
        ELSE [db EXCEPT !.statistics = @ \cup
                 {[id |-> Cardinality(db.statistics) + 1, date |-> today,
                   total_toggles |-> 1, on_count |-> on, off_count |-> off,
                   unique_sessions |-> 1, total_on_duration_minutes |-> 0]}]

\* repository.py:62-107  toggle_lamp.  f.get1: the first get_current_state,
\* f.upd: the UPDATE, f.ins: the INSERT of the activity (failure swallowed,
\* line 90-91), f.stats: _update_daily_stats (swallowed), f.get2: the final
\* get_current_state.  Each statement commits on its own (database.py:141),
\* so what was written before a failure stays written.
RepoToggleLamp(db, session_id, f, now, today) ==
    LET previous_state == Label(db.is_on)
        new_state  == ~db.is_on
        new_action == Label(new_state)
        db1 == [db EXCEPT !.is_on = new_state, !.last_updated = now,
                          !.client_info = ClientInfo(session_id)]
        db2 == IF f.ins
               THEN [db1 EXCEPT !.activities = Append(@,
                        [id |-> Len(@) + 1, action |-> new_action,
                         timestamp |-> now, day |-> today,
                         session_id |-> session_id,
                         previous_state |-> previous_state])]
               ELSE db1
        db3 == RepoUpdateDailyStats(db2, new_action, f.stats, today)
    IN  IF ~f.get1 THEN [exc |-> TRUE, val |-> NoValue, db |-> db]
        ELSE IF ~f.upd THEN [exc |-> TRUE, val |-> NoValue, db |-> db]
        ELSE IF ~f.get2 THEN [exc |-> TRUE, val |-> NoValue, db |-> db3]
        ELSE [exc |-> FALSE, val |-> RepoGetCurrentState(db3, TRUE).val, db |-> db3]

\* repository.py:168-196  get_recent_activities: ORDER BY timestamp DESC
\* LIMIT n; on an error it returns [] instead of raising (line 196).
RepoGetRecentActivities(db, limit, ok) ==
    IF ok
    THEN SqlLimit(Reversed([i \in 1..Len(db.activities) |->
                    [id |-> db.activities[i].id,
                     action |-> db.activities[i].action,
                     timestamp |-> db.activities[i].timestamp,
                     day |-> db.activities[i].day,
                     session_id |-> db.activities[i].session_id,
                     previous_state |-> db.activities[i].previous_state]]), limit)
    ELSE << >>

\* repository.py:198-230  get_daily_statistics: the row of the date, None when
\* there is none and None on an error (line 230).  An optional value is a set
\* of at most one element.
RepoGetDailyStatistics(db, target_date, ok) ==
    IF ok THEN {s \in db.statistics : s.date = target_date} ELSE {}

\* repository.py:232-242  get_total_lifetime_toggles: COUNT(*) of the
\* activities; 0 on an error.
RepoGetTotalLifetimeToggles(db, ok) == IF ok THEN Len(db.activities) ELSE 0

\* repository.py:244-290  get_dashboard_data.  f.state, f.stats, f.acts,
\* f.total: the four reads; only the first one's failure raises.
RepoGetDashboardData(db, f, today) ==
    IF ~f.state THEN [exc |-> TRUE, val |-> NoValue]
    ELSE [exc |-> FALSE,
          val |-> [current_state |->
                       [is_on |-> db.is_on, last_changed |-> db.last_updated,
                        change_count |-> 0],
                   today_stats |-> RepoGetDailyStatistics(db, today, f.stats),
                   recent_activities |->
                       RepoGetRecentActivities(db, DashboardRecent, f.acts),
                   total_lifetime_toggles |->
                       RepoGetTotalLifetimeToggles(db, f.total)]]

\* ================================================================ the cache
\* LampCacheService is the record
\*   [current_state |-> [is_on, last_updated, session_id],
\*    activities, daily_stats, sessions, lifetime_toggles, cache_dirty]
\* daily_stats is a dict keyed by the date: a set of records, one per date.
\* previous_state of a cached activity is whatever Python value was stored:
\* a bool for an activity the cache created ("True" / "False" here), the
\* store's string "on" / "off" for one pulled from the store.

PyBool(b) == IF b THEN "True" ELSE "False"

\* Python truthiness of such a value: False, None and "" are false.
Truthy(v) == v \notin {"False", None, ""}

\* cache.py:146  f"cache_{ms}_{session_id[:8]}"
CacheActivityId(now, session_id) == [src |-> "cache", n |-> now, tag |-> session_id]

\* sync.py:161  str(activity.id) of a store row
StoreActivityId(id) == [src |-> "db", n |-> id, tag |-> ""]

\* cache.py:108-117  __init__ (and reset_cache, cache.py:299-308)
NewCache(now) ==
    [current_state |-> [is_on |-> FALSE, last_updated |-> now, session_id |-> None],
     activities |-> << >>,
     daily_stats |-> {},
     sessions |-> {},
     lifetime_toggles |-> 0,
     cache_dirty |-> FALSE]

\* cache.py:119-126  get_current_state: a copy of the current state.
CacheGetCurrentState(c) ==
    [is_on |-> c.current_state.is_on,
     last_updated |-> c.current_state.last_updated,
     session_id |-> c.current_state.session_id]

\* _update_daily_stats without line 206: unique_sessions stays as the record
\* was created.
CacheUpdateDailyStatsSessionsKept(c, today, session_id, new_state) ==
    LET base == IF \E s \in c.daily_stats : s.date = today
                THEN c.daily_stats
                ELSE c.daily_stats \cup
                     {[date |-> today, total_toggles |-> 0, on_count |-> 0,
                       off_count |-> 0, unique_sessions |-> 0,
                       total_on_duration_minutes |-> 0]}
    IN  [c EXCEPT !.sessions = c.sessions \cup {session_id},
                  !.daily_stats =
                     {IF s.date = today
                      THEN [s EXCEPT !.total_toggles = @ + 1,
                                     !.on_count = @ + (IF new_state THEN 1 ELSE 0),
                                     !.off_count = @ + (IF new_state THEN 0 ELSE 1)]
                      ELSE s : s \in base}]

\* _update_daily_stats counting the toggle in total_toggles only.
CacheUpdateDailyStatsTotalOnly(c, today, session_id, new_state) ==
    LET sessions == c.sessions \cup {session_id}
        base  == IF \E s \in c.daily_stats : s.date = today
                 THEN c.daily_stats
                 ELSE c.daily_stats \cup
                      {[date |-> today, total_toggles |-> 0, on_count |-> 0,
                        off_count |-> 0, unique_sessions |-> 0,
                        total_on_duration_minutes |-> 0]}
    IN  [c EXCEPT !.sessions = sessions,
                  !.daily_stats =
                     {IF s.date = today
                      THEN [s EXCEPT !.total_toggles = @ + 1,
                                     !.unique_sessions = Cardinality(sessions)]
                      ELSE s : s \in base}]

\* cache.py:179-206  _update_daily_stats: unique_sessions is the size of the
\* all-time session set (line 206).
CacheUpdateDailyStats(c, today, session_id, new_state) ==
    LET sessions == c.sessions \cup {session_id}
        base  == IF \E s \in c.daily_stats : s.date = today
                 THEN c.daily_stats
                 ELSE c.daily_stats \cup
                      {[date |-> today, total_toggles |-> 0, on_count |-> 0,
                        off_count |-> 0, unique_sessions |-> 0,
                        total_on_duration_minutes |-> 0]}
    IN  [c EXCEPT !.sessions = sessions,
                  !.daily_stats =
                     {IF s.date = today
                      THEN [s EXCEPT !.total_toggles = @ + 1,
                                     !.on_count = @ + (IF new_state THEN 1 ELSE 0),
                                     !.off_count = @ + (IF new_state THEN 0 ELSE 1),
                                     !.unique_sessions = Cardinality(sessions)]
                      ELSE s : s \in base}]

\* The activity list kept whole: no eviction.
CacheUncapped(activities) == activities

\* cache.py:158-160  keep the last 100 activities.
CacheCapped(activities) ==
    IF Len(activities) > ActivityCap
    THEN SliceLast(activities, ActivityCap)
    ELSE activities

\* toggle_lamp without the `self._lifetime_toggles += 1` of line 166.
CacheToggleLampLifetimeKept(c, session_id, now, today) ==
    LET previous_state == c.current_state.is_on
        new_state == ~previous_state
        activity  == [id |-> CacheActivityId(now, session_id),
                      action |-> Label(new_state),
                      timestamp |-> now, day |-> today,
                      session_id |-> session_id,
                      previous_state |-> PyBool(previous_state)]
        appended  == Append(c.activities, activity)
        c1 == [c EXCEPT !.current_state =
                            [is_on |-> new_state, last_updated |-> now,
                             session_id |-> session_id],
                        !.activities = CacheCapped(appended)]
        c2 == CacheUpdateDailyStats(c1, today, session_id, new_state)
    IN  [val |-> [is_on |-> new_state, last_updated |-> now,
                  session_id |-> session_id],
         cache |-> [c2 EXCEPT !.cache_dirty = TRUE]]

\* cache.py:128-177  toggle_lamp, under the cache's lock: the new cache and
\* the returned CachedLampState.
CacheToggleLamp(c, session_id, now, today) ==
    LET previous_state == c.current_state.is_on
        new_state == ~previous_state
        activity  == [id |-> CacheActivityId(now, session_id),
                      action |-> Label(new_state),
                      timestamp |-> now, day |-> today,
                      session_id |-> session_id,
                      previous_state |-> PyBool(previous_state)]
        appended  == Append(c.activities, activity)
        c1 == [c EXCEPT !.current_state =
                            [is_on |-> new_state, last_updated |-> now,
                             session_id |-> session_id],
                        !.activities = CacheCapped(appended)]
        c2 == CacheUpdateDailyStats(c1, today, session_id, new_state)
    IN  [val |-> [is_on |-> new_state, last_updated |-> now,
                  session_id |-> session_id],
         cache |-> [c2 EXCEPT !.lifetime_toggles = @ + 1,
                              !.cache_dirty = TRUE]]

\* cache.py:208-211  get_recent_activities: reversed(self._activities[-limit:])
CacheGetRecentActivities(c, limit) == Reversed(SliceLast(c.activities, limit))

\* cache.py:213-221  get_daily_statistics: dict.get, None when absent.
CacheGetDailyStatistics(c, target_date) ==
    {s \in c.daily_stats : s.date = target_date}

\* An ISO date string.  date.isoformat() gives the form "date"; the
\* isoformat() of a datetime gives a string with a time part.
IsoDate(day) == [form |-> "date", day |-> day]
IsoDateTime(day) == [form |-> "datetime", day |-> day]

\* cache.py:223-243  get_dashboard_data, under the cache's lock.
CacheGetDashboardData(c, today) ==
    LET stats == CacheGetDailyStatistics(c, today)
    IN  [current_state |-> CacheGetCurrentState(c),
         today_stats |->
            IF stats # {}
            THEN [(CHOOSE s \in stats : TRUE) EXCEPT !.date = IsoDate(@)]
            ELSE [date |-> IsoDate(today), total_toggles |-> 0, on_count |-> 0,
                  off_count |-> 0, unique_sessions |-> 0,
                  total_on_duration_minutes |-> 0],
         total_lifetime_toggles |-> c.lifetime_toggles,
         recent_activities |-> CacheGetRecentActivities(c, DashboardRecent),
         source |-> "cache"]

\* update_from_database ending with self._cache_dirty = False.
CacheUpdateFromDatabaseCleans(c, db_data) ==
    LET c1 == IF "current_state" \in DOMAIN db_data
              THEN [c EXCEPT !.current_state =
                        [is_on |-> db_data.current_state.is_on,
                         last_updated |-> db_data.current_state.last_updated,
                         session_id |-> db_data.current_state.session_id]]
              ELSE c
        c2 == IF "total_lifetime_toggles" \in DOMAIN db_data
              THEN [c1 EXCEPT !.lifetime_toggles = db_data.total_lifetime_toggles]
              ELSE c1
        has_stats    == "today_stats" \in DOMAIN db_data
        stats_raises == has_stats /\ db_data.today_stats.date.form # "date"
        c3 == IF has_stats /\ ~stats_raises
              THEN [c2 EXCEPT !.daily_stats =
                        {s \in @ : s.date # db_data.today_stats.date.day}
                        \cup {[db_data.today_stats EXCEPT !.date = @.day]}]
              ELSE c2
        c4 == IF "recent_activities" \in DOMAIN db_data
              THEN [c3 EXCEPT !.activities = db_data.recent_activities]
              ELSE c3
    IN  [(IF stats_raises THEN c2 ELSE c4) EXCEPT !.cache_dirty = FALSE]

\* cache.py:256-283  update_from_database, under the cache's lock.  db_data is
\* a dict: a record whose domain is the keys present.  The four parts are
\* applied in order inside one try; CachedDailyStats.from_dict (cache.py:94)
\* calls date.fromisoformat, which raises on a string with a time part, and
\* the except clause (line 282) swallows it: what was assigned before stays,
\* the rest is skipped.  The dirty flag is not touched.
CacheUpdateFromDatabase(c, db_data) ==
    LET c1 == IF "current_state" \in DOMAIN db_data
              THEN [c EXCEPT !.current_state =
                        [is_on |-> db_data.current_state.is_on,
                         last_updated |-> db_data.current_state.last_updated,
                         session_id |-> db_data.current_state.session_id]]
              ELSE c
        c2 == IF "total_lifetime_toggles" \in DOMAIN db_data
              THEN [c1 EXCEPT !.lifetime_toggles = db_data.total_lifetime_toggles]
              ELSE c1
        has_stats    == "today_stats" \in DOMAIN db_data
        stats_raises == has_stats /\ db_data.today_stats.date.form # "date"
        c3 == IF has_stats /\ ~stats_raises
              THEN [c2 EXCEPT !.daily_stats =
                        {s \in @ : s.date # db_data.today_stats.date.day}
                        \cup {[db_data.today_stats EXCEPT !.date = @.day]}]
              ELSE c2
        c4 == IF "recent_activities" \in DOMAIN db_data
              THEN [c3 EXCEPT !.activities = db_data.recent_activities]
              ELSE c3
    IN  IF stats_raises THEN c2 ELSE c4

\* cache.py:245-248  is_cache_dirty
CacheIsDirty(c) == c.cache_dirty

\* cache.py:250-254  mark_cache_clean
CacheMarkClean(c) == [c EXCEPT !.cache_dirty = FALSE]

\* cache.py:285-297  get_cache_data_for_sync: {} when the cache is clean.
CacheDataForSync(c) ==
    IF ~c.cache_dirty THEN << >>
    ELSE [current_state |-> CacheGetCurrentState(c),
          activities |-> c.activities,
          daily_stats |-> c.daily_stats,
          lifetime_toggles |-> c.lifetime_toggles,
          sessions |-> c.sessions]

\* ================================================================ the facade
\* HALampRepository composes the two tiers; it holds no state of its own
\* beyond the handle _db_repository, and both branches of
\* _get_db_repository (a new handle, line 26-35; a kept one, line 37-44) end
\* in the same probe.  A facade result carries exc (an exception reached the
\* caller), tier (the tier that served it), val, and the two tiers after it.

\* _get_db_repository without its except clauses: the probe's exception
\* leaves the call.
HAGetDbRepositoryUncaught(db, ok) ==
    [exc |-> RepoGetCurrentState(db, ok).exc,
     repo |-> ~RepoGetCurrentState(db, ok).exc]

\* ha_repository.py:24-44  _get_db_repository: the handle, or None when the
\* probe get_current_state raises; the error is caught (line 33 and 41), so
\* the call itself never raises.
HAGetDbRepository(db, ok) ==
    [exc |-> FALSE, repo |-> ~RepoGetCurrentState(db, ok).exc]

\* ha_repository.py:73-83 and 111-128  the CurrentLampState built from the
\* cache: the state from one call, change_count from get_dashboard_data.
HAStateFromCache(cache_state, c, today) ==
    [is_on |-> cache_state.is_on,
     last_changed |-> cache_state.last_updated,
     last_session_id |-> cache_state.session_id,
     change_count |-> CacheGetDashboardData(c, today).total_lifetime_toggles]

\* get_current_state without the reconciliation of lines 56-66: the cache
\* keeps its own state after a store-served read.
HAGetCurrentStateUnreconciled(db, c, f, today) ==
    LET h == HAGetDbRepository(db, f.probe)
        db_state == RepoGetCurrentState(db, f.get)
    IN  IF h.exc
        THEN [exc |-> TRUE, tier |-> "none", val |-> NoValue, db |-> db, cache |-> c]
        ELSE IF h.repo /\ ~db_state.exc
        THEN [exc |-> FALSE, tier |-> "db", val |-> db_state.val, db |-> db,
              cache |-> c]
        ELSE [exc |-> FALSE, tier |-> "cache",
              val |-> HAStateFromCache(CacheGetCurrentState(c), c, today),
              db |-> db, cache |-> c]

\* ha_repository.py:46-83  get_current_state.  f.probe, f.get.
HAGetCurrentState(db, c, f, today) ==
    LET h == HAGetDbRepository(db, f.probe)
        db_state == RepoGetCurrentState(db, f.get)
    IN  IF h.exc
        THEN [exc |-> TRUE, tier |-> "none", val |-> NoValue, db |-> db, cache |-> c]
        ELSE IF h.repo /\ ~db_state.exc
        THEN [exc |-> FALSE, tier |-> "db", val |-> db_state.val, db |-> db,
              cache |->
                 IF CacheGetCurrentState(c).is_on # db_state.val.is_on
                 THEN CacheUpdateFromDatabase(c,
                         [current_state |->
                             [is_on |-> db_state.val.is_on,
                              last_updated |-> db_state.val.last_changed,
                              session_id |-> db_state.val.last_session_id]])
                 ELSE c]
        ELSE [exc |-> FALSE, tier |-> "cache",
              val |-> HAStateFromCache(CacheGetCurrentState(c), c, today),
              db |-> db, cache |-> c]

\* The fallback of toggle_lamp reading the cache's state before it toggles
\* the cache: the state it reports is the one before the flip.
HAToggleFromCacheStale(c, session_id, now, today) ==
    LET t == CacheToggleLamp(c, OrUnknown(session_id), now, today)
    IN  [val |-> HAStateFromCache(CacheGetCurrentState(c), t.cache, today),
         cache |-> t.cache]

\* ha_repository.py:111-128  the fallback of toggle_lamp: the cache's toggle
\* with session_id or "unknown", and the CurrentLampState built from it.
HAToggleFromCache(c, session_id, now, today) ==
    LET t == CacheToggleLamp(c, OrUnknown(session_id), now, today)
    IN  [val |-> HAStateFromCache(t.val, t.cache, today), cache |-> t.cache]

\* ha_repository.py:85-128  toggle_lamp.  f.probe and the five outcomes of
\* RepoToggleLamp.  A store toggle that raises has already written what it
\* wrote; the fallback then toggles the cache.
HAToggleLamp(db, c, session_id, f, now, today) ==
    LET h == HAGetDbRepository(db, f.probe)
        r == RepoToggleLamp(db, session_id, f, now, today)
        t == HAToggleFromCache(c, session_id, now, today)
    IN  IF h.exc
        THEN [exc |-> TRUE, tier |-> "none", val |-> NoValue, db |-> db, cache |-> c]
        ELSE IF h.repo /\ ~r.exc
        THEN [exc |-> FALSE, tier |-> "db", val |-> r.val, db |-> r.db,
              cache |-> CacheUpdateFromDatabase(c,
                         [current_state |->
                             [is_on |-> r.val.is_on,
                              last_updated |-> r.val.last_changed,
                              session_id |-> session_id]])]
        ELSE [exc |-> FALSE, tier |-> "cache",
              val |-> t.val,
              db |-> IF h.repo THEN r.db ELSE db, cache |-> t.cache]

\* ha_repository.py:146  int(id.split('_')[1]) if '_' in id else hash(id):
\* the epoch milliseconds of a cache id; for the string of a store id, the
\* string's hash, an integer the model only keeps apart from the others.
HAActivityId(id) == IF id.src = "cache" THEN id.n ELSE -(id.n)

\* ha_repository.py:143-154  a cached activity as a LampActivity.
HAActivityFromCache(a) ==
    [id |-> HAActivityId(a.id), action |-> a.action, timestamp |-> a.timestamp,
     day |-> a.day, session_id |-> a.session_id,
     previous_state |-> Label(Truthy(a.previous_state))]

\* ha_repository.py:130-156  get_recent_activities.  f.probe, f.q.
HAGetRecentActivities(db, c, limit, f) ==
    LET h == HAGetDbRepository(db, f.probe)
        acts == CacheGetRecentActivities(c, limit)
    IN  IF h.exc
        THEN [exc |-> TRUE, tier |-> "none", val |-> NoValue, db |-> db, cache |-> c]
        ELSE IF h.repo
        THEN [exc |-> FALSE, tier |-> "db",
              val |-> RepoGetRecentActivities(db, limit, f.q),
              db |-> db, cache |-> c]
        ELSE [exc |-> FALSE, tier |-> "cache",
              val |-> [i \in 1..Len(acts) |-> HAActivityFromCache(acts[i])],
              db |-> db, cache |-> c]

\* ha_repository.py:177-185  cached statistics as a LampStatistics.
HAStatisticsFromCache(s) ==
    [id |-> 1, date |-> s.date, total_toggles |-> s.total_toggles,
     on_count |-> s.on_count, off_count |-> s.off_count,
     unique_sessions |-> s.unique_sessions,
     total_on_duration_minutes |-> s.total_on_duration_minutes]

\* ha_repository.py:158-185  get_daily_statistics; target_date None (NoDate) is today.
\* f.probe, f.q.
HAGetDailyStatistics(db, c, target_date, f, today) ==
    LET h == HAGetDbRepository(db, f.probe)
        d == IF target_date = NoDate THEN today ELSE target_date
    IN  IF h.exc
        THEN [exc |-> TRUE, tier |-> "none", val |-> NoValue, db |-> db, cache |-> c]
        ELSE IF h.repo
        THEN [exc |-> FALSE, tier |-> "db",
              val |-> RepoGetDailyStatistics(db, d, f.q), db |-> db, cache |-> c]
        ELSE [exc |-> FALSE, tier |-> "cache",
              val |-> {HAStatisticsFromCache(s) : s \in CacheGetDailyStatistics(c, d)},
              db |-> db, cache |-> c]

\* ha_repository.py:197-239  the dashboard built from the cache's dict;
\* today_stats only when it counts a toggle (line 211).
HADashboardFromCache(cache_data) ==
    [current_state |->
        [is_on |-> cache_data.current_state.is_on,
         last_changed |-> cache_data.current_state.last_updated,
         change_count |-> cache_data.total_lifetime_toggles],
     today_stats |->
        IF cache_data.today_stats.total_toggles > 0
        THEN {[id |-> 1, date |-> cache_data.today_stats.date.day,
               total_toggles |-> cache_data.today_stats.total_toggles,
               on_count |-> cache_data.today_stats.on_count,
               off_count |-> cache_data.today_stats.off_count,
               unique_sessions |-> cache_data.today_stats.unique_sessions,
               total_on_duration_minutes |->
                  cache_data.today_stats.total_on_duration_minutes]}
        ELSE {},
     recent_activities |->
        [i \in 1..Len(cache_data.recent_activities) |->
            HAActivityFromCache(cache_data.recent_activities[i])],
     total_lifetime_toggles |-> cache_data.total_lifetime_toggles]

\* ha_repository.py:187-239  get_dashboard_data.  f.probe and the four
\* outcomes of RepoGetDashboardData.
HAGetDashboardData(db, c, f, today) ==
    LET h == HAGetDbRepository(db, f.probe)
        r == RepoGetDashboardData(db, f, today)
    IN  IF h.exc
        THEN [exc |-> TRUE, tier |-> "none", val |-> NoValue, db |-> db, cache |-> c]
        ELSE IF h.repo /\ ~r.exc
        THEN [exc |-> FALSE, tier |-> "db", val |-> r.val, db |-> db, cache |-> c]
        ELSE [exc |-> FALSE, tier |-> "cache",
              val |-> HADashboardFromCache(CacheGetDashboardData(c, today)),
              db |-> db, cache |-> c]

\* ================================================================ the sync service
\* DatabaseSyncService is the record
\*   [is_running, db_available, last_sync_attempt, current_retry_interval]
\* and its worker threads (see the variable worker).

\* sync.py:22-33  __init__
NewSyncService ==
    [is_running |-> FALSE, db_available |-> FALSE, last_sync_attempt |-> Never,
     current_retry_interval |-> InitialRetryInterval]

\* sync.py:114-126  _get_database_repository: a handle, or None when the
\* probe get_current_state raises.
SyncGetDatabaseRepository(db, ok) == ~RepoGetCurrentState(db, ok).exc

\* sync.py:136-170  the dict _sync_from_database builds from the dashboard.
\* today_stats.date is the datetime field of LampStatisticsResponse
\* (models.py:67), so its isoformat() has a time part; the state's
\* session_id is getattr(..., None) of a model without that attribute.
SnapshotData(dash) ==
    [current_state |-> [is_on |-> dash.current_state.is_on,
                        last_updated |-> dash.current_state.last_changed,
                        session_id |-> None],
     total_lifetime_toggles |-> dash.total_lifetime_toggles]
    @@ (IF dash.today_stats # {}
        THEN LET s == CHOOSE x \in dash.today_stats : TRUE
             IN  "today_stats" :>
                    [date |-> IsoDateTime(s.date),
                     total_toggles |-> s.total_toggles,
                     on_count |-> s.on_count, off_count |-> s.off_count,
                     unique_sessions |-> s.unique_sessions,
                     total_on_duration_minutes |-> s.total_on_duration_minutes]
        ELSE << >>)
    @@ (IF dash.recent_activities # << >>
        THEN "recent_activities" :>
                [i \in 1..Len(dash.recent_activities) |->
                    [id |-> StoreActivityId(dash.recent_activities[i].id),
                     action |-> dash.recent_activities[i].action,
                     timestamp |-> dash.recent_activities[i].timestamp,
                     day |-> dash.recent_activities[i].day,
                     session_id |-> dash.recent_activities[i].session_id,
                     previous_state |-> dash.recent_activities[i].previous_state]]
        ELSE << >>)

\* _sync_from_database clearing the dirty flag once the snapshot is applied.
SyncFromDatabaseCleans(db, c, f, today) ==
    LET r == RepoGetDashboardData(db, f, today)
    IN  IF r.exc THEN [exc |-> TRUE, cache |-> c]
        ELSE [exc |-> FALSE,
              cache |-> CacheMarkClean(CacheUpdateFromDatabase(c, SnapshotData(r.val)))]

\* _sync_from_database without the update_from_database call of line 173.
SyncFromDatabaseNotApplied(db, c, f, today) ==
    [exc |-> RepoGetDashboardData(db, f, today).exc, cache |-> c]

\* sync.py:128-179  _sync_from_database.  f.state, f.stats, f.acts, f.total:
\* the reads of get_dashboard_data; its exception is re-raised.
SyncFromDatabase(db, c, f, today) ==
    LET r == RepoGetDashboardData(db, f, today)
    IN  IF r.exc THEN [exc |-> TRUE, cache |-> c]
        ELSE [exc |-> FALSE,
              cache |-> CacheUpdateFromDatabase(c, SnapshotData(r.val))]

\* sync.py:181-222  _sync_to_database.  f.push_get: the get_current_state of
\* line 197.  The state difference is only logged (line 202) and each cached
\* activity is only logged (line 211); then the cache is marked clean.
SyncToDatabase(db, c, f) ==
    IF DOMAIN CacheDataForSync(c) = {} THEN [exc |-> FALSE, cache |-> c, db |-> db]
    ELSE IF RepoGetCurrentState(db, f.push_get).exc
         THEN [exc |-> TRUE, cache |-> c, db |-> db]
         ELSE [exc |-> FALSE, cache |-> CacheMarkClean(c), db |-> db]

\* _perform_sync without the `self._db_available = False` of line 110: an
\* error of the pull or the push leaves the flag as the iteration set it.
PerformSyncKeepsFlag(sv, db, c, f, now, today) ==
    LET s1 == [sv EXCEPT !.last_sync_attempt = now]
        down == [s1 EXCEPT !.db_available = FALSE]
        up   == [s1 EXCEPT !.db_available = TRUE]
        pulled == IF ~s1.db_available
                  THEN SyncFromDatabase(db, c, f, today)
                  ELSE [exc |-> FALSE, cache |-> c]
        pushed == IF CacheIsDirty(pulled.cache)
                  THEN SyncToDatabase(db, pulled.cache, f)
                  ELSE [exc |-> FALSE, cache |-> pulled.cache, db |-> db]
    IN  IF ~SyncGetDatabaseRepository(db, f.probe)
        THEN [exc |-> FALSE, probed |-> FALSE, pulled |-> FALSE, pushed |-> FALSE,
              sync |-> down, cache |-> c, db |-> db]
        ELSE IF pulled.exc
        THEN [exc |-> TRUE, probed |-> TRUE, pulled |-> FALSE, pushed |-> FALSE,
              sync |-> up, cache |-> pulled.cache, db |-> db]
        ELSE IF pushed.exc
        THEN [exc |-> TRUE, probed |-> TRUE, pulled |-> ~s1.db_available,
              pushed |-> FALSE, sync |-> up, cache |-> pushed.cache, db |-> db]
        ELSE [exc |-> FALSE, probed |-> TRUE, pulled |-> ~s1.db_available,
              pushed |-> CacheIsDirty(pulled.cache),
              sync |-> up, cache |-> pushed.cache, db |-> pushed.db]

\* _perform_sync pulling the snapshot at every successful probe, whatever
\* _db_available was.
PerformSyncAlwaysPulls(sv, db, c, f, now, today) ==
    LET s1 == [sv EXCEPT !.last_sync_attempt = now]
        down == [s1 EXCEPT !.db_available = FALSE]
        up   == [s1 EXCEPT !.db_available = TRUE]
        pulled == SyncFromDatabase(db, c, f, today)
        pushed == IF CacheIsDirty(pulled.cache)
                  THEN SyncToDatabase(db, pulled.cache, f)
                  ELSE [exc |-> FALSE, cache |-> pulled.cache, db |-> db]
    IN  IF ~SyncGetDatabaseRepository(db, f.probe)
        THEN [exc |-> FALSE, probed |-> FALSE, pulled |-> FALSE, pushed |-> FALSE,
              sync |-> down, cache |-> c, db |-> db]
        ELSE IF pulled.exc
        THEN [exc |-> TRUE, probed |-> TRUE, pulled |-> FALSE, pushed |-> FALSE,
              sync |-> down, cache |-> pulled.cache, db |-> db]
        ELSE IF pushed.exc
        THEN [exc |-> TRUE, probed |-> TRUE, pulled |-> ~s1.db_available,
              pushed |-> FALSE, sync |-> down, cache |-> pushed.cache, db |-> db]
        ELSE [exc |-> FALSE, probed |-> TRUE, pulled |-> ~s1.db_available,
              pushed |-> CacheIsDirty(pulled.cache),
              sync |-> up, cache |-> pushed.cache, db |-> pushed.db]

\* sync.py:84-112  _perform_sync.  f.probe and the outcomes above.  A failed
\* probe returns normally (line 92-95); an exception of the pull or the push
\* clears db_available and is re-raised (line 109-112).
PerformSync(sv, db, c, f, now, today) ==
    LET s1 == [sv EXCEPT !.last_sync_attempt = now]
        down == [s1 EXCEPT !.db_available = FALSE]
        up   == [s1 EXCEPT !.db_available = TRUE]
        pulled == IF ~s1.db_available
                  THEN SyncFromDatabase(db, c, f, today)
                  ELSE [exc |-> FALSE, cache |-> c]
        pushed == IF CacheIsDirty(pulled.cache)
                  THEN SyncToDatabase(db, pulled.cache, f)
                  ELSE [exc |-> FALSE, cache |-> pulled.cache, db |-> db]
    IN  IF ~SyncGetDatabaseRepository(db, f.probe)
        THEN [exc |-> FALSE, probed |-> FALSE, pulled |-> FALSE, pushed |-> FALSE,
              sync |-> down, cache |-> c, db |-> db]
        ELSE IF pulled.exc
        THEN [exc |-> TRUE, probed |-> TRUE, pulled |-> FALSE, pushed |-> FALSE,
              sync |-> down, cache |-> pulled.cache, db |-> db]
        ELSE IF pushed.exc
        THEN [exc |-> TRUE, probed |-> TRUE, pulled |-> ~s1.db_available,
              pushed |-> FALSE, sync |-> down, cache |-> pushed.cache, db |-> db]
        ELSE [exc |-> FALSE, probed |-> TRUE, pulled |-> ~s1.db_available,
              pushed |-> CacheIsDirty(pulled.cache),
              sync |-> up, cache |-> pushed.cache, db |-> pushed.db]

\* sync.py:66-74  what _sync_loop does with the iteration's outcome: the
\* sleep time and the next retry interval.
LoopSleepTime(sv, raised) ==
    IF raised THEN Min(sv.current_retry_interval, MaxRetryInterval)
    ELSE SyncInterval

\* The backoff without its ceiling: the interval doubles at every failure.
LoopRetryIntervalUncapped(sv, raised) ==
    IF raised THEN sv.current_retry_interval * 2
    ELSE InitialRetryInterval

LoopRetryInterval(sv, raised) ==
    IF raised THEN Min(sv.current_retry_interval * 2, MaxRetryInterval)
    ELSE InitialRetryInterval

\* ================================================================ the state
VARIABLES
    db,        \* the store's tables
    cache,     \* the LampCacheService instance
    sync,      \* the DatabaseSyncService instance's fields
    worker,    \* the threads start_sync_service created, in order: each
               \* [pc] with pc the thread's place in _sync_loop, and in its
               \* sleep [pc, left] with the seconds left to sleep
    joining,   \* a stop_sync_service call is inside join(timeout=5)
    clock,     \* the logical clock: the toggles issued so far
    today,     \* the calendar day of date.today()
    hist,      \* history: the store's first is_on, whether a store call failed,
               \* the toggles issued to the cache tier itself and the
               \* session ids they carried
    steps,     \* the writing operations served so far
    last,      \* the last operation: its inputs, outcome and result
    lock,      \* the owner of the cache's RLock: a thread, or NoOwner
    thread     \* the threads inside a cache operation: each [pc, op] with
               \* the operation's local variables

vars == <<db, cache, sync, worker, joining, clock, today, hist, steps, last,
          lock, thread>>

\* The threads that call the cache concurrently.
ThreadIds == 1..MaxThreads

\* The owner of a lock that no thread holds.
NoOwner == 0

\* No thread is inside a cache operation and the cache's lock is free.
NoThreads ==
    /\ lock = NoOwner
    /\ thread = [t \in ThreadIds |-> [pc |-> "idle"]]

\* ------------------------------------------------ outcomes of the store calls
\* A call that is never reached has no outcome of its own: it is fixed to
\* TRUE, so that each outcome record stands for one run of the handler.
GetOutcomes ==
    {f \in [probe : BOOLEAN, get : BOOLEAN] : ~f.probe => f.get}

ReadOutcomes ==
    {f \in [probe : BOOLEAN, q : BOOLEAN] : ~f.probe => f.q}

ToggleOutcomes ==
    {f \in [probe : BOOLEAN, get1 : BOOLEAN, upd : BOOLEAN, ins : BOOLEAN,
            stats : BOOLEAN, get2 : BOOLEAN] :
        /\ ~f.probe => f.get1
        /\ ~f.get1 => f.upd
        /\ ~f.upd => (f.ins /\ f.stats /\ f.get2)}

DashOutcomes ==
    {f \in [probe : BOOLEAN, state : BOOLEAN, stats : BOOLEAN, acts : BOOLEAN,
            total : BOOLEAN] :
        /\ ~f.probe => f.state
        /\ ~f.state => (f.stats /\ f.acts /\ f.total)}

\* For an iteration of the sync service the calls made depend on its state:
\* the pull only when db_available was false, the push only for a dirty cache.
SyncOutcomes(sv, c) ==
    {f \in [probe : BOOLEAN, state : BOOLEAN, stats : BOOLEAN, acts : BOOLEAN,
            total : BOOLEAN, push_get : BOOLEAN] :
        /\ (~f.probe \/ sv.db_available) => f.state
        /\ ~f.state => (f.stats /\ f.acts /\ f.total)
        /\ (~f.probe \/ ~f.state \/ ~c.cache_dirty) => f.push_get}

AnyFailed(f) == \E k \in DOMAIN f : ~f[k]

Failed(f) == [hist EXCEPT !.db_failed = @ \/ AnyFailed(f)]

\* One more writing operation is served.
Served == steps < MaxOps /\ steps' = steps + 1

\* The outcome of the last operation has been taken: the next one can start.
Idle == last.op = "idle"

\* The activities of the sequence after that are not in the sequence before.
NewRows(before, after) ==
    Cardinality({i \in 1..Len(after) :
                    \A j \in 1..Len(before) : before[j] # after[i]})

Init ==
    /\ db \in {NewStore(b) : b \in BOOLEAN}
    /\ cache = NewCache(0)
    /\ sync = NewSyncService
    /\ worker = << >>
    /\ joining = FALSE
    /\ clock = 0
    /\ today = 1
    /\ hist = [init_is_on |-> db.is_on, db_failed |-> FALSE, cache_toggles |-> 0,
             toggled |-> {}]
    /\ steps = 0
    /\ last = [op |-> "idle"]
    /\ NoThreads

\* ------------------------------------------------ requests to the facade
\* HALampRepository.get_current_state
GetCurrentState(f) ==
    LET r == HAGetCurrentState(db, cache, f, today)
    IN  /\ Idle
        /\ db' = r.db
        /\ cache' = r.cache
        /\ hist' = Failed(f)
        /\ last' = [op |-> "get_current_state", f |-> f, exc |-> r.exc,
                    tier |-> r.tier, val |-> r.val,
                    fallback |-> HAGetCurrentState(db, cache,
                                    [probe |-> FALSE, get |-> TRUE], today).val,
                    pre_cache_is_on |-> cache.current_state.is_on,
                    pre_db_is_on |-> db.is_on]
        /\ UNCHANGED <<sync, worker, joining, clock, today, steps, lock, thread>>

\* HALampRepository.toggle_lamp
ToggleLamp(session_id, f) ==
    LET r == HAToggleLamp(db, cache, session_id, f, clock + 1, today)
    IN  /\ Idle
        /\ Served
        /\ clock < MaxToggles
        /\ clock' = clock + 1
        /\ db' = r.db
        /\ cache' = r.cache
        /\ hist' = Failed(f)
        /\ last' = [op |-> "toggle_lamp", f |-> f, exc |-> r.exc,
                    tier |-> r.tier, val |-> r.val,
                    session_id |-> session_id,
                    fallback |-> HAToggleLamp(db, cache, session_id,
                                    [probe |-> FALSE, get1 |-> TRUE, upd |-> TRUE,
                                     ins |-> TRUE, stats |-> TRUE, get2 |-> TRUE],
                                    clock + 1, today).val,
                    pre_cache_is_on |-> cache.current_state.is_on,
                    pre_db_is_on |-> db.is_on,
                    db_rows |-> NewRows(db.activities, r.db.activities),
                    cache_rows |-> NewRows(cache.activities, r.cache.activities)]
        /\ UNCHANGED <<sync, worker, joining, today, lock, thread>>

\* HALampRepository.get_recent_activities
GetRecentActivities(limit, f) ==
    LET r == HAGetRecentActivities(db, cache, limit, f)
    IN  /\ Idle
        /\ hist' = Failed(f)
        /\ last' = [op |-> "get_recent_activities", f |-> f, exc |-> r.exc,
                    tier |-> r.tier, val |-> r.val, limit |-> limit,
                    fallback |-> HAGetRecentActivities(db, cache, limit,
                                    [probe |-> FALSE, q |-> TRUE]).val]
        /\ UNCHANGED <<db, cache, sync, worker, joining, clock, today, steps,
                       lock, thread>>

\* HALampRepository.get_daily_statistics
GetDailyStatistics(target_date, f) ==
    LET r == HAGetDailyStatistics(db, cache, target_date, f, today)
    IN  /\ Idle
        /\ hist' = Failed(f)
        /\ last' = [op |-> "get_daily_statistics", f |-> f, exc |-> r.exc,
                    tier |-> r.tier, val |-> r.val, target_date |-> target_date,
                    fallback |-> HAGetDailyStatistics(db, cache, target_date,
                                    [probe |-> FALSE, q |-> TRUE], today).val]
        /\ UNCHANGED <<db, cache, sync, worker, joining, clock, today, steps,
                       lock, thread>>

\* HALampRepository.get_dashboard_data
GetDashboardData(f) ==
    LET r == HAGetDashboardData(db, cache, f, today)
    IN  /\ Idle
        /\ hist' = Failed(f)
        /\ last' = [op |-> "get_dashboard_data", f |-> f, exc |-> r.exc,
                    tier |-> r.tier, val |-> r.val,
                    fallback |-> HAGetDashboardData(db, cache,
                                    [probe |-> FALSE, state |-> TRUE, stats |-> TRUE,
                                     acts |-> TRUE, total |-> TRUE], today).val]
        /\ UNCHANGED <<db, cache, sync, worker, joining, clock, today, steps,
                       lock, thread>>

\* ------------------------------------------------ the sync service
\* What one run of _perform_sync leaves in last.
IterationRecord(op, r, f, sleep_time) ==
    [op |-> op, f |-> f, exc |-> FALSE, raised |-> r.exc,
     probed |-> r.probed, pulled |-> r.pulled, pushed |-> r.pushed,
     pre_db_available |-> sync.db_available,
     pre_cache_is_on |-> cache.current_state.is_on,
     pre_db_is_on |-> db.is_on,
     pre_dirty |-> cache.cache_dirty,
     pre_activities |-> cache.activities,
     retry_before |-> sync.current_retry_interval,
     sleep_time |-> sleep_time]

\* sync.py:232-240  force_sync: one _perform_sync under _sync_lock; True
\* unless it raised.
ForceSync(f) ==
    LET r == PerformSync(sync, db, cache, f, clock, today)
    IN  /\ Idle
        /\ Served
        /\ ~joining
        /\ sync' = r.sync
        /\ cache' = r.cache
        /\ db' = r.db
        /\ hist' = Failed(f)
        /\ last' = IterationRecord("force_sync", r, f, 0) @@ [ret |-> ~r.exc]
        /\ UNCHANGED <<worker, joining, clock, today, lock, thread>>

\* start_sync_service without the test of _is_running: every call starts a
\* thread.
StartSyncServiceAgain ==
    /\ Idle
    /\ ~joining
    /\ Len(worker) < MaxWorkers
    /\ sync' = [sync EXCEPT !.is_running = TRUE]
    /\ worker' = Append(worker, [pc |-> "check"])
    /\ last' = [op |-> "start_sync_service", was_running |-> sync.is_running]
    /\ UNCHANGED <<db, cache, joining, clock, today, hist, steps, lock, thread>>

\* sync.py:35-45  start_sync_service, under _sync_lock: nothing when already
\* running, else a new thread at the head of _sync_loop.
StartSyncService ==
    /\ Idle
    /\ ~joining
    /\ IF sync.is_running
       THEN UNCHANGED <<sync, worker>>
       ELSE /\ Len(worker) < MaxWorkers
            /\ sync' = [sync EXCEPT !.is_running = TRUE]
            /\ worker' = Append(worker, [pc |-> "check"])
    /\ last' = [op |-> "start_sync_service", was_running |-> sync.is_running]
    /\ UNCHANGED <<db, cache, joining, clock, today, hist, steps, lock, thread>>

\* sync.py:47-56  stop_sync_service, under _sync_lock: nothing when not
\* running, else clear the flag and join the last thread for at most 5 s.
StopSyncService ==
    /\ Idle
    /\ ~joining
    /\ IF sync.is_running
       THEN /\ sync' = [sync EXCEPT !.is_running = FALSE]
            /\ joining' = (worker # << >>)
       ELSE UNCHANGED <<sync, joining>>
    /\ last' = [op |-> "stop_sync_service", was_running |-> sync.is_running]
    /\ UNCHANGED <<db, cache, worker, clock, today, hist, steps, lock, thread>>

\* sync.py:55  join(timeout=5) returns: the thread has ended, or the 5 s have
\* passed.  A thread at the loop test or in its sleep sees the cleared flag
\* within a second (line 78), so the timeout only passes with the thread
\* inside _perform_sync.
StopJoinReturns ==
    /\ Idle
    /\ joining
    /\ worker[Len(worker)].pc \in {"done", "sync"}
    /\ joining' = FALSE
    /\ last' = [op |-> "stop_returned",
                timed_out |-> worker[Len(worker)].pc # "done"]
    /\ UNCHANGED <<db, cache, sync, worker, clock, today, hist, steps, lock, thread>>

\* sync.py:62  while self._is_running
WorkerCheck(w) ==
    /\ Idle
    /\ worker[w].pc = "check"
    /\ worker' = [worker EXCEPT ![w].pc = IF sync.is_running THEN "sync" ELSE "done"]
    /\ UNCHANGED <<db, cache, sync, joining, clock, today, hist, last, steps,
                   lock, thread>>

\* An iteration in a loop without the handler of line 70: the exception of
\* _perform_sync ends the thread.
WorkerIterationUncaught(w, f) ==
    LET r == PerformSync(sync, db, cache, f, clock, today)
    IN  /\ worker[w].pc = "sync"
        /\ sync' = [r.sync EXCEPT !.current_retry_interval =
                                      LoopRetryInterval(r.sync, r.exc)]
        /\ cache' = r.cache
        /\ db' = r.db
        /\ worker' = [worker EXCEPT ![w] =
                          IF r.exc THEN [pc |-> "done"]
                          ELSE [pc |-> "sleep", left |-> LoopSleepTime(r.sync, r.exc)]]
        /\ hist' = Failed(f)
        /\ last' = IterationRecord("worker_sync", r, f, LoopSleepTime(r.sync, r.exc))
                   @@ [retry_after |-> LoopRetryInterval(r.sync, r.exc)]
        /\ UNCHANGED <<joining, clock, today, lock, thread>>

\* sync.py:63-74  one iteration: _perform_sync, then the sleep time and the
\* retry interval from its outcome.
WorkerIteration(w, f) ==
    LET r == PerformSync(sync, db, cache, f, clock, today)
    IN  /\ worker[w].pc = "sync"
        /\ sync' = [r.sync EXCEPT !.current_retry_interval =
                                      LoopRetryInterval(r.sync, r.exc)]
        /\ cache' = r.cache
        /\ db' = r.db
        /\ worker' = [worker EXCEPT ![w] =
                          [pc |-> "sleep", left |-> LoopSleepTime(r.sync, r.exc)]]
        /\ hist' = Failed(f)
        /\ last' = IterationRecord("worker_sync", r, f, LoopSleepTime(r.sync, r.exc))
                   @@ [retry_after |-> LoopRetryInterval(r.sync, r.exc)]
        /\ UNCHANGED <<joining, clock, today, lock, thread>>

\* An iteration that counts as one of the writing operations served.
WorkerSync(w, f) ==
    /\ Idle
    /\ Served
    /\ WorkerIteration(w, f)

\* Every store call of an iteration succeeds.
StoreReachable ==
    [probe |-> TRUE, state |-> TRUE, stats |-> TRUE, acts |-> TRUE,
     total |-> TRUE, push_get |-> TRUE]

\* An iteration with the store reachable; the loop runs them for as long as
\* the process lives.
WorkerSyncReachable(w) ==
    /\ Idle
    /\ WorkerIteration(w, StoreReachable)
    /\ UNCHANGED steps

\* An iteration that meets the store in any state, as often as the loop runs.
WorkerSyncAnyTime(w, f) ==
    /\ Idle
    /\ WorkerIteration(w, f)
    /\ UNCHANGED steps

\* sync.py:77-80  the sleep, in steps of a second: it ends after sleep_time
\* steps, or at the first step that finds _is_running cleared.  The steps
\* touch nothing shared, so the sleep is one step here.
WorkerSleep(w) ==
    /\ Idle
    /\ worker[w].pc = "sleep"
    /\ worker' = [worker EXCEPT ![w] = [pc |-> "check"]]
    /\ UNCHANGED <<db, cache, sync, joining, clock, today, hist, last, steps,
                   lock, thread>>

\* The sleep loop without its test of _is_running: it sleeps every second
\* of sleep_time.
WorkerSleepTickDeaf(w) ==
    /\ Idle
    /\ worker[w].pc = "sleep"
    /\ worker' = [worker EXCEPT ![w] =
                     IF @.left = 0 THEN [pc |-> "check"]
                     ELSE [@ EXCEPT !.left = @ - 1]]
    /\ UNCHANGED <<db, cache, sync, joining, clock, today, hist, last, steps,
                   lock, thread>>

\* sync.py:77-80  one pass of the sleep loop: `for _ in range(int(sleep_time))`
\* ends when no second is left; otherwise the pass breaks when _is_running
\* is cleared, and else sleeps one second.
WorkerSleepTick(w) ==
    /\ Idle
    /\ worker[w].pc = "sleep"
    /\ worker' = [worker EXCEPT ![w] =
                     IF @.left = 0 \/ ~sync.is_running THEN [pc |-> "check"]
                     ELSE [@ EXCEPT !.left = @ - 1]]
    /\ UNCHANGED <<db, cache, sync, joining, clock, today, hist, last, steps,
                   lock, thread>>

\* ------------------------------------------------ the rest
\* cache.py:299-308  reset_cache
ResetCache ==
    /\ Idle
    /\ Served
    /\ cache' = NewCache(clock)
    /\ last' = [op |-> "reset_cache", pre_dirty |-> cache.cache_dirty]
    /\ UNCHANGED <<db, sync, worker, joining, clock, today, hist, lock, thread>>

\* Midnight passes.
NextDay ==
    /\ Idle
    /\ Served
    /\ today < MaxDay
    /\ today' = today + 1
    /\ last' = [op |-> "next_day"]
    /\ UNCHANGED <<db, cache, sync, worker, joining, clock, hist, lock, thread>>

\* ------------------------------------------------ the cache tier in use
\* A store that served k toggles of session s1 on day 1, all of its
\* statements succeeding, before this process started; and a cache that has
\* served n toggles since time t0, the store being away.
RECURSIVE StoreAfterToggles(_)
StoreAfterToggles(k) ==
    IF k = 0 THEN NewStore(FALSE)
    ELSE RepoToggleLamp(StoreAfterToggles(k - 1), "s1",
                        [probe |-> TRUE, get1 |-> TRUE, upd |-> TRUE,
                         ins |-> TRUE, stats |-> TRUE, get2 |-> TRUE], k, 1).db

\* The limits passed to the cache's get_recent_activities: the small ones
\* and one far above the cap.
CacheLimits == Limits \cup {10 * ActivityCap}

\* The process starts on day 1 with a fresh cache, beside an empty store or
\* beside a store that holds StoredRows activities.
InitCache ==
    /\ \E k \in {0, StoredRows} :
          /\ db = StoreAfterToggles(k)
          /\ clock = k
    /\ cache = NewCache(0)
    /\ sync = NewSyncService
    /\ worker = << >>
    /\ joining = FALSE
    /\ today = 1
    /\ hist = [init_is_on |-> FALSE, db_failed |-> FALSE, cache_toggles |-> 0,
             toggled |-> {}]
    /\ steps = 0
    /\ last = [op |-> "idle"]
    /\ NoThreads

\* cache.py:128-177  LampCacheService.toggle_lamp, called with a session id,
\* for at most `most` calls.
CacheToggleWithin(session_id, most) ==
    LET t == CacheToggleLamp(cache, session_id, clock + 1, today)
    IN  /\ Idle
        /\ hist.cache_toggles < most
        /\ hist' = [hist EXCEPT !.cache_toggles = @ + 1,
                            !.toggled = @ \cup {session_id}]
        /\ clock' = clock + 1
        /\ cache' = t.cache
        /\ last' = [op |-> "cache_toggle_lamp", val |-> t.val,
                    session_id |-> session_id,
                    pre_lifetime_toggles |-> cache.lifetime_toggles]
        /\ UNCHANGED <<db, sync, worker, joining, today, steps, lock, thread>>

CacheToggle(session_id) == CacheToggleWithin(session_id, MaxCacheToggles)

\* A run of toggles by one session that goes MaxCacheToggles past the cap.
CacheToggleToCap == CacheToggleWithin("s1", ActivityCap + MaxCacheToggles)

\* cache.py:208-211  LampCacheService.get_recent_activities
CacheRecent(limit) ==
    /\ Idle
    /\ last' = [op |-> "cache_get_recent_activities", limit |-> limit,
                val |-> CacheGetRecentActivities(cache, limit)]
    /\ UNCHANGED <<db, cache, sync, worker, joining, clock, today, hist, steps,
                   lock, thread>>

\* ------------------------------------------------ the HTTP endpoints
\* routers.py:33-38  get_client_info: the X-Session-ID header, or a fresh
\* uuid: the endpoint always passes a session id.
\* routers.py:55-80  POST /lamp/toggle: previous_status from
\* get_current_state, then toggle_lamp; the handler is a coroutine without
\* an await, so no other request runs in between.  f1, f2: the outcomes of
\* the store calls of the two facade calls.
ApiToggleLamp(session_id, f1, f2) ==
    LET r1 == HAGetCurrentState(db, cache, f1, today)
        r2 == HAToggleLamp(r1.db, r1.cache, session_id, f2, clock + 1, today)
    IN  /\ Idle
        /\ Served
        /\ clock < MaxToggles
        /\ clock' = clock + 1
        /\ db' = r2.db
        /\ cache' = r2.cache
        /\ hist' = [hist EXCEPT !.db_failed = @ \/ AnyFailed(f1) \/ AnyFailed(f2)]
        /\ last' = IF r1.exc \/ r2.exc
                   THEN [op |-> "api_toggle_lamp", exc |-> TRUE]
                   ELSE [op |-> "api_toggle_lamp", exc |-> FALSE,
                         status |-> Label(r2.val.is_on), is_on |-> r2.val.is_on,
                         previous_status |-> Label(r1.val.is_on),
                         read_tier |-> r1.tier, tier |-> r2.tier,
                         pre_cache_is_on |-> cache.current_state.is_on,
                         pre_db_is_on |-> db.is_on]
        /\ UNCHANGED <<sync, worker, joining, today, lock, thread>>

\* routers.py:93-114  GET /lamp/activities?limit=: a limit above 100 becomes
\* 100, then get_recent_activities.
ApiGetRecentActivities(limit, f) ==
    LET passed == IF limit > HttpLimitMax THEN HttpLimitMax ELSE limit
        r == HAGetRecentActivities(db, cache, passed, f)
    IN  /\ Idle
        /\ hist' = Failed(f)
        /\ last' = [op |-> "api_get_recent_activities", exc |-> r.exc,
                    limit |-> limit, passed |-> passed, tier |-> r.tier,
                    val |-> r.val, retained |-> Len(cache.activities)]
        /\ UNCHANGED <<db, cache, sync, worker, joining, clock, today, steps,
                       lock, thread>>

\* The outcome of the last operation is taken.
Respond ==
    /\ ~Idle
    /\ last' = [op |-> "idle"]
    /\ UNCHANGED <<db, cache, sync, worker, joining, clock, today, hist, steps,
                   lock, thread>>

\* ------------------------------------------------ threads inside the cache
\* The cache's operations statement by statement, for threads that call them
\* at the same time.  A thread runs one operation: pc "idle" before it,
\* "done" after it with what it returned (val), the cache it found when it
\* took the lock (pre) and the cache it left when it released it (post).

\* An acquire that never waits.
CanAcquireAlways(owner, t) == TRUE

\* cache.py:109  threading.RLock: `with self._lock` is entered when no thread
\* owns the lock or the caller itself does.
CanAcquire(owner, t) == owner = NoOwner \/ owner = t

\* What no statement of a cache operation touches.
OutsideCache == UNCHANGED <<db, sync, worker, joining, today, hist, steps, last>>

\* cache.py:128-130  toggle_lamp is called and enters `with self._lock`.
ThreadToggleLamp(t, session_id) ==
    /\ thread[t].pc = "idle"
    /\ CanAcquire(lock, t)
    /\ lock' = t
    /\ thread' = [thread EXCEPT ![t] =
                     [pc |-> "t_read", op |-> "toggle_lamp",
                      session_id |-> session_id, pre |-> cache]]
    /\ UNCHANGED <<cache, clock>>
    /\ OutsideCache

\* cache.py:131-135  previous_state, new_state, timestamp = datetime.now()
ToggleRead(t) ==
    /\ thread[t].pc = "t_read"
    /\ clock' = clock + 1
    /\ thread' = [thread EXCEPT ![t] =
                     [pc |-> "t_state"] @@
                     [previous_state |-> cache.current_state.is_on,
                      new_state |-> ~cache.current_state.is_on,
                      timestamp |-> clock + 1] @@ @]
    /\ UNCHANGED <<cache, lock>>
    /\ OutsideCache

\* cache.py:138-142  self._current_state = CachedLampState(...)
ToggleState(t) ==
    /\ thread[t].pc = "t_state"
    /\ cache' = [cache EXCEPT !.current_state =
                    [is_on |-> thread[t].new_state,
                     last_updated |-> thread[t].timestamp,
                     session_id |-> thread[t].session_id]]
    /\ thread' = [thread EXCEPT ![t].pc = "t_append"]
    /\ UNCHANGED <<clock, lock>>
    /\ OutsideCache

\* cache.py:145-160  the activity is created and appended; the last 100 are kept.
ToggleAppend(t) ==
    /\ thread[t].pc = "t_append"
    /\ cache' = [cache EXCEPT !.activities =
                    CacheCapped(Append(@,
                        [id |-> CacheActivityId(thread[t].timestamp, thread[t].session_id),
                         action |-> Label(thread[t].new_state),
                         timestamp |-> thread[t].timestamp, day |-> today,
                         session_id |-> thread[t].session_id,
                         previous_state |-> PyBool(thread[t].previous_state)]))]
    /\ thread' = [thread EXCEPT ![t].pc = "t_sessions"]
    /\ UNCHANGED <<clock, lock>>
    /\ OutsideCache

\* cache.py:185-195  _update_daily_stats: the session is added and the record
\* of the day is created when there is none.
StatsSessions(t) ==
    /\ thread[t].pc = "t_sessions"
    /\ cache' = [cache EXCEPT
                    !.sessions = @ \cup {thread[t].session_id},
                    !.daily_stats =
                        IF \E s \in @ : s.date = today THEN @
                        ELSE @ \cup {[date |-> today, total_toggles |-> 0,
                                      on_count |-> 0, off_count |-> 0,
                                      unique_sessions |-> 0,
                                      total_on_duration_minutes |-> 0]}]
    /\ thread' = [thread EXCEPT ![t].pc = "t_total"]
    /\ UNCHANGED <<clock, lock>>
    /\ OutsideCache

\* cache.py:198  stats.total_toggles += 1
StatsTotal(t) ==
    /\ thread[t].pc = "t_total"
    /\ cache' = [cache EXCEPT !.daily_stats =
                    {IF s.date = today THEN [s EXCEPT !.total_toggles = @ + 1]
                     ELSE s : s \in @}]
    /\ thread' = [thread EXCEPT ![t].pc = "t_count"]
    /\ UNCHANGED <<clock, lock>>
    /\ OutsideCache

\* cache.py:200-203  stats.on_count += 1 or stats.off_count += 1
StatsCount(t) ==
    /\ thread[t].pc = "t_count"
    /\ cache' = [cache EXCEPT !.daily_stats =
                    {IF s.date = today
                     THEN IF thread[t].new_state
                          THEN [s EXCEPT !.on_count = @ + 1]
                          ELSE [s EXCEPT !.off_count = @ + 1]
                     ELSE s : s \in @}]
    /\ thread' = [thread EXCEPT ![t].pc = "t_unique"]
    /\ UNCHANGED <<clock, lock>>
    /\ OutsideCache

\* cache.py:206  stats.unique_sessions = len(self._sessions)
StatsUnique(t) ==
    /\ thread[t].pc = "t_unique"
    /\ cache' = [cache EXCEPT !.daily_stats =
                    {IF s.date = today
                     THEN [s EXCEPT !.unique_sessions = Cardinality(cache.sessions)]
                     ELSE s : s \in @}]
    /\ thread' = [thread EXCEPT ![t].pc = "t_lifetime"]
    /\ UNCHANGED <<clock, lock>>
    /\ OutsideCache

\* cache.py:166  self._lifetime_toggles += 1
ToggleLifetime(t) ==
    /\ thread[t].pc = "t_lifetime"
    /\ cache' = [cache EXCEPT !.lifetime_toggles = @ + 1]
    /\ thread' = [thread EXCEPT ![t].pc = "t_dirty"]
    /\ UNCHANGED <<clock, lock>>
    /\ OutsideCache

\* cache.py:169  self._cache_dirty = True
ToggleDirty(t) ==
    /\ thread[t].pc = "t_dirty"
    /\ cache' = [cache EXCEPT !.cache_dirty = TRUE]
    /\ thread' = [thread EXCEPT ![t].pc = "t_return"]
    /\ UNCHANGED <<clock, lock>>
    /\ OutsideCache

\* cache.py:173-177  the new state is returned and the lock released.
ToggleReturn(t) ==
    /\ thread[t].pc = "t_return"
    /\ lock' = NoOwner
    /\ thread' = [thread EXCEPT ![t] =
                     [pc |-> "done", post |-> cache,
                      val |-> [is_on |-> thread[t].new_state,
                               last_updated |-> thread[t].timestamp,
                               session_id |-> thread[t].session_id]] @@ @]
    /\ UNCHANGED <<cache, clock>>
    /\ OutsideCache

\* cache.py:223-225  get_dashboard_data is called and enters `with self._lock`.
ThreadGetDashboardData(t) ==
    /\ thread[t].pc = "idle"
    /\ CanAcquire(lock, t)
    /\ lock' = t
    /\ thread' = [thread EXCEPT ![t] =
                     [pc |-> "d_state", op |-> "get_dashboard_data", pre |-> cache]]
    /\ UNCHANGED <<cache, clock>>
    /\ OutsideCache

\* cache.py:226  current_state = self.get_current_state(): a copy, taken with
\* the lock the thread already owns.
DashState(t) ==
    /\ thread[t].pc = "d_state"
    /\ CanAcquire(lock, t)
    /\ thread' = [thread EXCEPT ![t] =
                     [pc |-> "d_stats",
                      current_state |-> CacheGetCurrentState(cache)] @@ @]
    /\ UNCHANGED <<cache, clock, lock>>
    /\ OutsideCache

\* cache.py:227  today_stats = self.get_daily_statistics(): the record object
\* of today held by the dict, or None.  The thread holds the object, not a
\* copy: has_stats says it holds one, and its fields are read when used.
DashStats(t) ==
    /\ thread[t].pc = "d_stats"
    /\ CanAcquire(lock, t)
    /\ thread' = [thread EXCEPT ![t] =
                     [pc |-> "d_recent",
                      has_stats |-> CacheGetDailyStatistics(cache, today) # {}] @@ @]
    /\ UNCHANGED <<cache, clock, lock>>
    /\ OutsideCache

\* cache.py:228  recent_activities = self.get_recent_activities(5): a new list.
DashRecent(t) ==
    /\ thread[t].pc = "d_recent"
    /\ CanAcquire(lock, t)
    /\ thread' = [thread EXCEPT ![t] =
                     [pc |-> "d_return",
                      recent_activities |->
                          CacheGetRecentActivities(cache, DashboardRecent)] @@ @]
    /\ UNCHANGED <<cache, clock, lock>>
    /\ OutsideCache

\* cache.py:230-243  the dict is built (today_stats.to_dict() reads the
\* record's fields, self._lifetime_toggles is read) and returned; the lock is
\* released.
DashReturn(t) ==
    /\ thread[t].pc = "d_return"
    /\ lock' = NoOwner
    /\ thread' = [thread EXCEPT ![t] =
                     [pc |-> "done", post |-> cache,
                      val |-> [current_state |-> thread[t].current_state,
                               today_stats |->
                                  IF thread[t].has_stats
                                  THEN [(CHOOSE s \in cache.daily_stats : s.date = today)
                                           EXCEPT !.date = IsoDate(@)]
                                  ELSE [date |-> IsoDate(today), total_toggles |-> 0,
                                        on_count |-> 0, off_count |-> 0,
                                        unique_sessions |-> 0,
                                        total_on_duration_minutes |-> 0],
                               total_lifetime_toggles |-> cache.lifetime_toggles,
                               recent_activities |-> thread[t].recent_activities,
                               source |-> "cache"]] @@ @]
    /\ UNCHANGED <<cache, clock>>
    /\ OutsideCache

\* sync.py:131-173, cache.py:256-258  the sync worker has read the store's
\* dashboard, built the snapshot from it, and update_from_database enters
\* `with self._lock`.
ThreadUpdateFromDatabase(t) ==
    /\ thread[t].pc = "idle"
    /\ CanAcquire(lock, t)
    /\ lock' = t
    /\ thread' = [thread EXCEPT ![t] =
                     [pc |-> "u_state", op |-> "update_from_database",
                      db_data |-> SnapshotData(RepoGetDashboardData(db,
                                     [state |-> TRUE, stats |-> TRUE, acts |-> TRUE,
                                      total |-> TRUE], today).val),
                      pre |-> cache]]
    /\ UNCHANGED <<cache, clock>>
    /\ OutsideCache

\* cache.py:261-263  the current state, when the snapshot has one.
UpdateState(t) ==
    /\ thread[t].pc = "u_state"
    /\ cache' = IF "current_state" \in DOMAIN thread[t].db_data
                THEN [cache EXCEPT !.current_state =
                        [is_on |-> thread[t].db_data.current_state.is_on,
                         last_updated |-> thread[t].db_data.current_state.last_updated,
                         session_id |-> thread[t].db_data.current_state.session_id]]
                ELSE cache
    /\ thread' = [thread EXCEPT ![t].pc = "u_lifetime"]
    /\ UNCHANGED <<clock, lock>>
    /\ OutsideCache

\* cache.py:266-267  the lifetime counter, when the snapshot has one.
UpdateLifetime(t) ==
    /\ thread[t].pc = "u_lifetime"
    /\ cache' = IF "total_lifetime_toggles" \in DOMAIN thread[t].db_data
                THEN [cache EXCEPT !.lifetime_toggles =
                        thread[t].db_data.total_lifetime_toggles]
                ELSE cache
    /\ thread' = [thread EXCEPT ![t].pc = "u_stats"]
    /\ UNCHANGED <<clock, lock>>
    /\ OutsideCache

\* cache.py:270-273  the statistics of today, when the snapshot has them:
\* from_dict raises on a date string with a time part, and the handler of
\* line 282 ends the update; otherwise a new record object replaces the
\* dict's entry.
UpdateStats(t) ==
    LET d == thread[t].db_data
        has_stats == "today_stats" \in DOMAIN d
    IN  /\ thread[t].pc = "u_stats"
        /\ IF has_stats /\ d.today_stats.date.form # "date"
           THEN /\ thread' = [thread EXCEPT ![t].pc = "u_return"]
                /\ UNCHANGED cache
           ELSE /\ thread' = [thread EXCEPT ![t].pc = "u_activities"]
                /\ cache' = IF has_stats
                            THEN [cache EXCEPT !.daily_stats =
                                    {s \in @ : s.date # d.today_stats.date.day}
                                    \cup {[d.today_stats EXCEPT !.date = @.day]}]
                            ELSE cache
        /\ UNCHANGED <<clock, lock>>
        /\ OutsideCache

\* cache.py:276-278  the activity list, when the snapshot has one.
UpdateActivities(t) ==
    /\ thread[t].pc = "u_activities"
    /\ cache' = IF "recent_activities" \in DOMAIN thread[t].db_data
                THEN [cache EXCEPT !.activities = thread[t].db_data.recent_activities]
                ELSE cache
    /\ thread' = [thread EXCEPT ![t].pc = "u_return"]
    /\ UNCHANGED <<clock, lock>>
    /\ OutsideCache

\* cache.py:280-283  the log line, and the lock is released.
UpdateReturn(t) ==
    /\ thread[t].pc = "u_return"
    /\ lock' = NoOwner
    /\ thread' = [thread EXCEPT ![t] = [pc |-> "done", post |-> cache] @@ @]
    /\ UNCHANGED <<cache, clock>>
    /\ OutsideCache

\* ha_repository.py:171-175, cache.py:213-221  get_daily_statistics falls back
\* to the cache (the store is down): cache.get_daily_statistics takes the
\* lock, returns the record object of today held by the dict and releases
\* the lock; None ends the call.
ThreadGetDailyStatistics(t) ==
    /\ thread[t].pc = "idle"
    /\ CanAcquire(lock, t)
    /\ thread' = [thread EXCEPT ![t] =
                     IF CacheGetDailyStatistics(cache, today) = {}
                     THEN [pc |-> "done", op |-> "get_daily_statistics",
                           pre |-> cache, post |-> cache, val |-> {}]
                     ELSE [pc |-> "s_total", op |-> "get_daily_statistics",
                           pre |-> cache]]
    /\ UNCHANGED <<cache, clock, lock>>
    /\ OutsideCache

\* ha_repository.py:177-185  LampStatistics(...) is built from the record
\* object's fields, read one after the other without the lock:
\* total_toggles, on_count, off_count, unique_sessions.
StatisticsRead(t) ==
    LET s == CHOOSE x \in cache.daily_stats : x.date = today
        pc == thread[t].pc
    IN  /\ pc \in {"s_total", "s_on", "s_off", "s_unique"}
        /\ thread' = [thread EXCEPT ![t] =
                CASE pc = "s_total" ->
                        [pc |-> "s_on", total_toggles |-> s.total_toggles] @@ @
                  [] pc = "s_on" ->
                        [pc |-> "s_off", on_count |-> s.on_count] @@ @
                  [] pc = "s_off" ->
                        [pc |-> "s_unique", off_count |-> s.off_count] @@ @
                  [] pc = "s_unique" ->
                        [pc |-> "done", post |-> cache,
                         val |-> {[id |-> 1, date |-> s.date,
                                   total_toggles |-> @.total_toggles,
                                   on_count |-> @.on_count,
                                   off_count |-> @.off_count,
                                   unique_sessions |-> s.unique_sessions,
                                   total_on_duration_minutes |->
                                       s.total_on_duration_minutes]}] @@ @]
        /\ UNCHANGED <<cache, clock, lock>>
        /\ OutsideCache

\* sync.py:106-107  _perform_sync, with the store reached, asks
\* is_cache_dirty (cache.py:245-248, under the lock); a clean cache ends the
\* iteration without a push.
ThreadSyncToDatabase(t) ==
    /\ thread[t].pc = "idle"
    /\ CanAcquire(lock, t)
    /\ thread' = [thread EXCEPT ![t] =
                     IF CacheIsDirty(cache)
                     THEN [pc |-> "p_export", op |-> "sync_to_database",
                           pre |-> cache]
                     ELSE [pc |-> "done", op |-> "sync_to_database",
                           pre |-> cache, post |-> cache, cache_data |-> << >>,
                           marked |-> FALSE]]
    /\ UNCHANGED <<cache, clock, lock>>
    /\ OutsideCache

\* sync.py:187-191  cache_data = get_cache_data_for_sync() (cache.py:285-297,
\* under the lock, released on return); an empty dict ends the push.
PushExport(t) ==
    /\ thread[t].pc = "p_export"
    /\ CanAcquire(lock, t)
    /\ thread' = [thread EXCEPT ![t] =
                     IF CacheDataForSync(cache) = << >>
                     THEN [pc |-> "done", post |-> cache, cache_data |-> << >>,
                           marked |-> FALSE] @@ @
                     ELSE [pc |-> "p_clean",
                           cache_data |-> CacheDataForSync(cache)] @@ @]
    /\ UNCHANGED <<cache, clock, lock>>
    /\ OutsideCache

\* sync.py:194-215  the store's state is read and compared, the activities
\* are logged; then mark_cache_clean() (cache.py:250-254, under the lock).
PushMarkClean(t) ==
    /\ thread[t].pc = "p_clean"
    /\ CanAcquire(lock, t)
    /\ cache' = CacheMarkClean(cache)
    /\ thread' = [thread EXCEPT ![t] =
                     [pc |-> "done", post |-> CacheMarkClean(cache),
                      marked |-> TRUE] @@ @]
    /\ UNCHANGED <<clock, lock>>
    /\ OutsideCache

\* -------------------------------------- threads inside _perform_sync
\* _perform_sync statement by statement, for the two kinds of thread that
\* run it: the worker's thread in _sync_loop, and the threads of the callers
\* of force_sync.  A thread inside _perform_sync is at one of SyncSteps.
WorkerThread == 1

SyncSteps == {"y_attempt", "y_probe", "y_pull", "y_push", "y_return"}

InPerformSync(t) == thread[t].pc \in SyncSteps

\* sync.py:24, 235  _sync_lock is held by the thread that is inside the
\* `with self._sync_lock` of force_sync.
HoldsSyncLock(t) ==
    thread[t].pc # "idle" /\ thread[t].op = "force_sync" /\ InPerformSync(t)

\* sync.py:62-64  the worker's thread passes `while self._is_running` and
\* calls _perform_sync; no lock is taken on this path.
WorkerEntersSync ==
    /\ thread[WorkerThread].pc = "idle"
    /\ sync.is_running
    /\ thread' = [thread EXCEPT ![WorkerThread] =
                     [pc |-> "y_attempt", op |-> "worker_sync"]]
    /\ UNCHANGED <<cache, clock, lock>>
    /\ OutsideCache

\* sync.py:232-236  force_sync enters `with self._sync_lock` (an RLock: no
\* other thread may hold it) and calls _perform_sync.
ForceEntersSync(t) ==
    /\ t # WorkerThread
    /\ thread[t].pc = "idle"
    /\ \A u \in ThreadIds \ {t} : ~HoldsSyncLock(u)
    /\ thread' = [thread EXCEPT ![t] = [pc |-> "y_attempt", op |-> "force_sync"]]
    /\ UNCHANGED <<cache, clock, lock>>
    /\ OutsideCache

\* sync.py:86  self._last_sync_attempt = datetime.now()
PerformAttempt(t) ==
    /\ thread[t].pc = "y_attempt"
    /\ sync' = [sync EXCEPT !.last_sync_attempt = clock]
    /\ thread' = [thread EXCEPT ![t].pc = "y_probe"]
    /\ UNCHANGED <<db, cache, clock, lock, worker, joining, today, hist, steps, last>>

\* sync.py:88-100  the probe: None clears _db_available and returns; else
\* the flag is set when it was clear, and the pull follows.
PerformProbe(t, ok) ==
    /\ thread[t].pc = "y_probe"
    /\ IF ~SyncGetDatabaseRepository(db, ok)
       THEN /\ sync' = [sync EXCEPT !.db_available = FALSE]
            /\ thread' = [thread EXCEPT ![t] = [pc |-> "y_return", probed |-> FALSE] @@ @]
       ELSE /\ sync' = [sync EXCEPT !.db_available = TRUE]
            /\ thread' = [thread EXCEPT ![t] =
                             [pc |-> IF sync.db_available THEN "y_push" ELSE "y_pull",
                              probed |-> TRUE] @@ @]
    /\ UNCHANGED <<db, cache, clock, lock, worker, joining, today, hist, steps, last>>

\* sync.py:103  self._sync_from_database(repository), the store answering.
PerformPull(t) ==
    /\ thread[t].pc = "y_pull"
    /\ CanAcquire(lock, t)
    /\ cache' = SyncFromDatabase(db, cache, StoreReachable, today).cache
    /\ thread' = [thread EXCEPT ![t].pc = "y_push"]
    /\ UNCHANGED <<clock, lock>>
    /\ OutsideCache

\* sync.py:106-107  the push when the cache is dirty, the store answering.
PerformPush(t) ==
    /\ thread[t].pc = "y_push"
    /\ CanAcquire(lock, t)
    /\ cache' = IF CacheIsDirty(cache)
                THEN SyncToDatabase(db, cache, StoreReachable).cache
                ELSE cache
    /\ thread' = [thread EXCEPT ![t].pc = "y_return"]
    /\ UNCHANGED <<clock, lock>>
    /\ OutsideCache

\* _perform_sync returns.  sync.py:237: force_sync leaves the lock and
\* returns True.  sync.py:66-80: the loop resets the retry interval, sleeps
\* and comes back to its test.
PerformReturn(t) ==
    /\ thread[t].pc = "y_return"
    /\ IF t = WorkerThread
       THEN /\ sync' = [sync EXCEPT !.current_retry_interval = InitialRetryInterval]
            /\ thread' = [thread EXCEPT ![t] = [pc |-> "idle"]]
       ELSE /\ sync' = sync
            /\ thread' = [thread EXCEPT ![t] = [pc |-> "done", ret |-> TRUE] @@ @]
    /\ UNCHANGED <<db, cache, clock, lock, worker, joining, today, hist, steps, last>>

\* -------------------------------------- threads in the facade's fallback
\* The cache fallback of the facade, one cache call per step: each call is
\* one section of the cache's lock, and the lock is free between them.
\* `first` and `second` keep what the cache held at the two calls.
CachePair(c) == [is_on |-> c.current_state.is_on,
                 lifetime_toggles |-> c.lifetime_toggles]

\* ha_repository.py:73-74  the fallback of get_current_state:
\* cache_state = self.cache_service.get_current_state()
ThreadHAGetCurrentState(t) ==
    /\ thread[t].pc = "idle"
    /\ CanAcquire(lock, t)
    /\ thread' = [thread EXCEPT ![t] =
                     [pc |-> "h_dash", op |-> "ha_get_current_state",
                      cache_state |-> CacheGetCurrentState(cache),
                      first |-> CachePair(cache)]]
    /\ UNCHANGED <<cache, clock, lock>>
    /\ OutsideCache

\* ha_repository.py:111-116  the fallback of toggle_lamp:
\* cache_state = self.cache_service.toggle_lamp(session_id or "unknown", ...)
ThreadHAToggleLamp(t, session_id) ==
    LET r == CacheToggleLamp(cache, OrUnknown(session_id), clock + 1, today)
    IN  /\ thread[t].pc = "idle"
        /\ CanAcquire(lock, t)
        /\ clock < MaxToggles
        /\ clock' = clock + 1
        /\ cache' = r.cache
        /\ thread' = [thread EXCEPT ![t] =
                         [pc |-> "h_dash", op |-> "ha_toggle_lamp",
                          cache_state |-> r.val,
                          first |-> CachePair(r.cache)]]
        /\ UNCHANGED lock
        /\ OutsideCache

\* ha_repository.py:75-83 and 118-128  cache_data = get_dashboard_data(), and
\* the CurrentLampState built from cache_state and
\* cache_data["total_lifetime_toggles"].
HADashboard(t) ==
    /\ thread[t].pc = "h_dash"
    /\ CanAcquire(lock, t)
    /\ thread' = [thread EXCEPT ![t] =
                     [pc |-> "done", second |-> CachePair(cache),
                      val |-> HAStateFromCache(thread[t].cache_state, cache, today)]
                     @@ @]
    /\ UNCHANGED <<cache, clock, lock>>
    /\ OutsideCache

\* The facade behind the API with the manual sync: the requests, force_sync,
\* reset_cache and midnight.  The worker's iteration runs the _perform_sync
\* that force_sync runs, so the store and the cache reach the same contents
\* here as with the worker running.
Next ==
    \/ \E f \in GetOutcomes : GetCurrentState(f)
    \/ \E session_id \in SessionInputs, f \in ToggleOutcomes : ToggleLamp(session_id, f)
    \/ \E limit \in Limits, f \in ReadOutcomes : GetRecentActivities(limit, f)
    \/ \E d \in Days \cup {NoDate}, f \in ReadOutcomes : GetDailyStatistics(d, f)
    \/ \E f \in DashOutcomes : GetDashboardData(f)
    \/ \E f \in SyncOutcomes(sync, cache) : ForceSync(f)
    \/ ResetCache
    \/ NextDay
    \/ Respond

Spec == Init /\ [][Next]_vars

\* The sync service: its start and stop, the worker threads' steps and
\* force_sync, with the toggles that make the cache and the store differ.
NextSync ==
    \/ \E session_id \in SessionInputs, f \in ToggleOutcomes : ToggleLamp(session_id, f)
    \/ \E f \in SyncOutcomes(sync, cache) : ForceSync(f)
    \/ StartSyncService
    \/ StopSyncService
    \/ StopJoinReturns
    \/ \E w \in 1..Len(worker) : WorkerCheck(w)
    \/ \E w \in 1..Len(worker), f \in SyncOutcomes(sync, cache) : WorkerSync(w, f)
    \/ \E w \in 1..Len(worker) : WorkerSleep(w)
    \/ Respond

SpecSync == Init /\ [][NextSync]_vars

\* The cache tier: its own toggles and reads, midnight, and the pulls of
\* force_sync that apply the store's snapshot to it.
NextCache ==
    \/ \E session_id \in SessionIds : CacheToggle(session_id)
    \/ \E limit \in CacheLimits : CacheRecent(limit)
    \/ \E f \in SyncOutcomes(sync, cache) : ForceSync(f)
    \/ NextDay
    \/ Respond

SpecCache == InitCache /\ [][NextCache]_vars

\* The cache filling up: one session toggles a fresh cache, beside an empty
\* store that is never reached, up to the cap and past it, with reads at
\* every length.
NextCap ==
    \/ CacheToggleToCap
    \/ \E limit \in CacheLimits : CacheRecent(limit)
    \/ Respond

SpecCap == Init /\ [][NextCap]_vars

\* The cache is fresh, beside an empty store or one that holds StoredRows
\* activities of day 1, on day 1 or a later day; no thread has called yet.
InitThreads ==
    /\ \E k \in {0, StoredRows} :
          /\ db = StoreAfterToggles(k)
          /\ clock = k
    /\ cache = NewCache(0)
    /\ sync = NewSyncService
    /\ worker = << >>
    /\ joining = FALSE
    /\ today \in Days
    /\ hist = [init_is_on |-> FALSE, db_failed |-> FALSE, cache_toggles |-> 0,
             toggled |-> {}]
    /\ steps = 0
    /\ last = [op |-> "idle"]
    /\ NoThreads

\* Threads inside the cache at the same time: each calls one operation and
\* runs it statement by statement.
NextThreads ==
    \/ \E t \in ThreadIds, session_id \in SessionIds : ThreadToggleLamp(t, session_id)
    \/ \E t \in ThreadIds : ToggleRead(t)
    \/ \E t \in ThreadIds : ToggleState(t)
    \/ \E t \in ThreadIds : ToggleAppend(t)
    \/ \E t \in ThreadIds : StatsSessions(t)
    \/ \E t \in ThreadIds : StatsTotal(t)
    \/ \E t \in ThreadIds : StatsCount(t)
    \/ \E t \in ThreadIds : StatsUnique(t)
    \/ \E t \in ThreadIds : ToggleLifetime(t)
    \/ \E t \in ThreadIds : ToggleDirty(t)
    \/ \E t \in ThreadIds : ToggleReturn(t)
    \/ \E t \in ThreadIds : ThreadGetDashboardData(t)
    \/ \E t \in ThreadIds : DashState(t)
    \/ \E t \in ThreadIds : DashStats(t)
    \/ \E t \in ThreadIds : DashRecent(t)
    \/ \E t \in ThreadIds : DashReturn(t)
    \/ \E t \in ThreadIds : ThreadUpdateFromDatabase(t)
    \/ \E t \in ThreadIds : UpdateState(t)
    \/ \E t \in ThreadIds : UpdateLifetime(t)
    \/ \E t \in ThreadIds : UpdateStats(t)
    \/ \E t \in ThreadIds : UpdateActivities(t)
    \/ \E t \in ThreadIds : UpdateReturn(t)
    \/ \E t \in ThreadIds : ThreadGetDailyStatistics(t)
    \/ \E t \in ThreadIds : StatisticsRead(t)

SpecThreads == InitThreads /\ [][NextThreads]_vars

\* The push of a sync iteration beside toggles of the cache: the threads of
\* the requests toggle while the worker's thread exports and marks clean.
NextPush ==
    \/ \E t \in ThreadIds, session_id \in SessionIds : ThreadToggleLamp(t, session_id)
    \/ \E t \in ThreadIds : ToggleRead(t)
    \/ \E t \in ThreadIds : ToggleState(t)
    \/ \E t \in ThreadIds : ToggleAppend(t)
    \/ \E t \in ThreadIds : StatsSessions(t)
    \/ \E t \in ThreadIds : StatsTotal(t)
    \/ \E t \in ThreadIds : StatsCount(t)
    \/ \E t \in ThreadIds : StatsUnique(t)
    \/ \E t \in ThreadIds : ToggleLifetime(t)
    \/ \E t \in ThreadIds : ToggleDirty(t)
    \/ \E t \in ThreadIds : ToggleReturn(t)
    \/ \E t \in ThreadIds : ThreadSyncToDatabase(t)
    \/ \E t \in ThreadIds : PushExport(t)
    \/ \E t \in ThreadIds : PushMarkClean(t)

SpecPush == InitThreads /\ [][NextPush]_vars

\* The service has been started beside a store that holds StoredRows
\* activities or none; the worker's thread stands at its loop test and no
\* thread has called force_sync yet.
InitExclusion ==
    /\ \E k \in {0, StoredRows} :
          /\ db = StoreAfterToggles(k)
          /\ clock = k
    /\ cache = NewCache(0)
    /\ sync = [NewSyncService EXCEPT !.is_running = TRUE]
    /\ worker = << >>
    /\ joining = FALSE
    /\ today = 1
    /\ hist = [init_is_on |-> FALSE, db_failed |-> FALSE, cache_toggles |-> 0,
               toggled |-> {}]
    /\ steps = 0
    /\ last = [op |-> "idle"]
    /\ NoThreads

\* The worker's iterations and the calls of force_sync side by side, with
\* toggles of the cache that give the push something to do.
NextExclusion ==
    \/ WorkerEntersSync
    \/ \E t \in ThreadIds : ForceEntersSync(t)
    \/ \E t \in ThreadIds : PerformAttempt(t)
    \/ \E t \in ThreadIds, ok \in BOOLEAN : PerformProbe(t, ok)
    \/ \E t \in ThreadIds : PerformPull(t)
    \/ \E t \in ThreadIds : PerformPush(t)
    \/ \E t \in ThreadIds : PerformReturn(t)
    \/ CacheToggle("s1")
    \/ Respond

SpecExclusion == InitExclusion /\ [][NextExclusion]_vars

\* Requests served by the cache at the same time: the store is away, and
\* each thread runs one fallback, call by call.
NextFallback ==
    \/ \E t \in ThreadIds : ThreadHAGetCurrentState(t)
    \/ \E t \in ThreadIds, session_id \in SessionInputs : ThreadHAToggleLamp(t, session_id)
    \/ \E t \in ThreadIds : HADashboard(t)

SpecFallback == InitThreads /\ [][NextFallback]_vars

\* main.py:52-56  the application has started: the sync service runs with
\* its one worker thread at the head of the loop.
InitStarted ==
    /\ db \in {NewStore(b) : b \in BOOLEAN}
    /\ cache = NewCache(0)
    /\ sync = [NewSyncService EXCEPT !.is_running = TRUE]
    /\ worker = <<[pc |-> "check"]>>
    /\ joining = FALSE
    /\ clock = 0
    /\ today = 1
    /\ hist = [init_is_on |-> db.is_on, db_failed |-> FALSE, cache_toggles |-> 0,
             toggled |-> {}]
    /\ steps = 0
    /\ last = [op |-> "idle"]
    /\ NoThreads

\* An outage seen by a toggle: the store is down when the facade probes it,
\* or it is up for the whole request.
ToggleOutages ==
    {f \in ToggleOutcomes : f.get1 /\ f.upd /\ f.ins /\ f.stats /\ f.get2}

\* An outage seen by an iteration: at its probe, at the first read of the
\* pull, or at the read of the push.
SyncOutages(sv, c) ==
    {f \in SyncOutcomes(sv, c) : f.stats /\ f.acts /\ f.total}

\* The running service over time: finitely many toggles and iterations that
\* meet an outage (the operations counted by steps), and iterations with the
\* store reachable without end.
NextRunning ==
    \/ \E f \in ToggleOutages : ToggleLamp("s1", f)
    \/ WorkerCheck(1)
    \/ \E f \in SyncOutages(sync, cache) : WorkerSync(1, f)
    \/ WorkerSyncReachable(1)
    \/ WorkerSleep(1)
    \/ Respond

\* The worker's loop without a bound on its iterations: each meets the
\* store up or in an outage, so failures follow one another up to the
\* ceiling of the backoff and beyond, with successes in between.
NextBackoff ==
    \/ WorkerCheck(1)
    \/ \E f \in SyncOutages(sync, cache) : WorkerSyncAnyTime(1, f)
    \/ WorkerSleep(1)
    \/ Respond

SpecBackoff == InitStarted /\ [][NextBackoff]_vars

\* The worker is a thread of its own and the outcome of an operation is
\* always taken: each of their steps is taken when it stays possible.
SpecRunning ==
    /\ InitStarted
    /\ [][NextRunning]_vars
    /\ WF_vars(Respond)
    /\ WF_vars(WorkerCheck(1))
    /\ WF_vars(WorkerSyncReachable(1))
    /\ WF_vars(WorkerSleep(1))

\* The running service and its stop: the worker's loop with its sleep second
\* by second, iterations that meet an outage (counted by steps) or not, and
\* stop_sync_service at any moment; start_sync_service is not called again.
NextStopping ==
    \/ WorkerCheck(1)
    \/ \E f \in SyncOutages(sync, cache) : WorkerSync(1, f)
    \/ WorkerSyncReachable(1)
    \/ WorkerSleepTick(1)
    \/ StopSyncService
    \/ StopJoinReturns
    \/ Respond

\* The worker is a thread of its own: the calls of other threads delay its
\* steps but do not keep it from taking them.
SpecStopping ==
    /\ InitStarted
    /\ [][NextStopping]_vars
    /\ WF_vars(Respond)
    /\ SF_vars(WorkerCheck(1))
    /\ SF_vars(WorkerSyncReachable(1))
    /\ SF_vars(WorkerSleepTick(1))

\* The HTTP API: the toggle and the activity list, as the router serves them.
NextApi ==
    \/ \E session_id \in SessionIds, f1 \in GetOutcomes, f2 \in ToggleOutcomes :
          ApiToggleLamp(session_id, f1, f2)
    \/ \E limit \in Limits \cup {HttpLimitMax + 1}, f \in ReadOutcomes :
          ApiGetRecentActivities(limit, f)
    \/ Respond

SpecApi == Init /\ [][NextApi]_vars

\* ================================================================ the claims
\* The five operations of HALampRepository, and the two callers of
\* _perform_sync, as last.op names them.
HAOps == {"get_current_state", "toggle_lamp", "get_recent_activities",
          "get_daily_statistics", "get_dashboard_data"}

SyncOps == {"force_sync", "worker_sync"}

\* The store's activity log holds a row for the cached activity a: same time,
\* same action, same session.
InStoreLog(a) ==
    \E j \in 1..Len(db.activities) :
        /\ db.activities[j].timestamp = a.timestamp
        /\ db.activities[j].action = a.action
        /\ OrUnknown(db.activities[j].session_id) = a.session_id

\* C1: each of the five facade operations, for any input (an absent session
\* id included) and whichever store call fails (the probe or a call of the
\* operation itself), returns a result served by one of the two tiers: no
\* exception reaches the caller.
C1_NoStoreErrorReachesCaller ==
    last.op \in HAOps => (~last.exc /\ last.tier \in {"db", "cache"})

\* A toggle with no session id whose probe failed has returned.
C1_Witness ==
    /\ last.op = "toggle_lamp"
    /\ last.session_id = None
    /\ ~last.f.probe
    /\ ~last.exc

\* C2: a toggle served by the cache returns normally, and the is_on it
\* returns is the negation of the cache's is_on just before the call.
C2_CacheToggleFlipsCacheValue ==
    (last.op = "toggle_lamp" /\ last.tier = "cache")
        => (~last.exc /\ last.val.is_on = ~last.pre_cache_is_on)

\* The second toggle of a sequence, served by the cache after a store call
\* failed, returns the store's own value: not the negation of the store's.
C2_Witness ==
    /\ last.op = "toggle_lamp"
    /\ last.tier = "cache"
    /\ clock = 2
    /\ AnyFailed(last.f)
    /\ last.val.is_on = ~last.pre_cache_is_on
    /\ last.val.is_on = last.pre_db_is_on

\* C3: while no store call has failed, after the clock's N toggles
\* get_current_state returns is_on = initial is_on XOR (N is odd), and
\* get_recent_activities(N) returns N activities.
C3_TogglesWithStoreUp ==
    ~hist.db_failed =>
        /\ last.op = "get_current_state"
              => last.val.is_on = (hist.init_is_on # (clock % 2 = 1))
        /\ (last.op = "get_recent_activities" /\ last.limit = clock)
              => Len(last.val) = clock

\* Two toggles with the store up, then get_recent_activities(2) returned two.
C3_Witness ==
    /\ ~hist.db_failed
    /\ clock = MaxToggles
    /\ last.op = "get_recent_activities"
    /\ last.limit = clock
    /\ Len(last.val) = clock

\* C4: a sync iteration that found db_available false and ends with it true
\* has pulled the snapshot: the cache's current state is then the store's
\* (is_on and the time of the last change).
C4_ReconnectAppliesSnapshot ==
    (last.op \in SyncOps /\ ~last.pre_db_available /\ sync.db_available)
        => /\ last.pulled
           /\ CacheGetCurrentState(cache).is_on = db.is_on
           /\ CacheGetCurrentState(cache).last_updated = db.last_updated

\* Such an iteration found the cache's is_on different from the store's,
\* after a toggle, and left the store's in the cache.
C4_Witness ==
    /\ last.op \in SyncOps
    /\ ~last.pre_db_available
    /\ sync.db_available
    /\ clock > 0
    /\ last.pre_cache_is_on # last.pre_db_is_on
    /\ CacheGetCurrentState(cache).is_on = last.pre_db_is_on

\* C5: when a sync iteration found the cache dirty and its push ended with
\* the cache marked clean, every activity a cache-served toggle had recorded
\* before the iteration has a row in the store's activity log.
C5_PushAppendsCacheActivities ==
    (last.op \in SyncOps /\ last.pre_dirty /\ last.pushed)
        => \A i \in 1..Len(last.pre_activities) :
              last.pre_activities[i].id.src = "cache"
                 => InStoreLog(last.pre_activities[i])

\* C6 (as the code has it): the dirty flag is false on a fresh cache; a
\* cache-served toggle leaves it true; and a step takes it from true to false
\* only if it is a sync iteration's push (mark_cache_clean) or reset_cache.
C6_DirtyFlagLifecycle ==
    /\ ~CacheIsDirty(cache)
    /\ [][/\ (last'.op = "toggle_lamp" /\ last'.tier = "cache")
                => CacheIsDirty(cache')
          /\ (CacheIsDirty(cache) /\ ~CacheIsDirty(cache'))
                => \/ (last'.op \in SyncOps /\ last'.pushed)
                   \/ last'.op = "reset_cache"]_vars

\* reset_cache has cleared the flag of a dirty cache.
C6_Witness ==
    /\ last.op = "reset_cache"
    /\ last.pre_dirty
    /\ ~CacheIsDirty(cache)

\* C6 as stated: the same lifecycle, with mark_cache_clean the only
\* operation that takes the flag from true to false.
C6_OnlyMarkCleanClears ==
    /\ ~CacheIsDirty(cache)
    /\ [][/\ (last'.op = "toggle_lamp" /\ last'.tier = "cache")
                => CacheIsDirty(cache')
          /\ (CacheIsDirty(cache) /\ ~CacheIsDirty(cache'))
                => (last'.op \in SyncOps /\ last'.pushed)]_vars

\* C7: an iteration of the sync loop whose probe failed waits
\* current_retry_interval seconds, and leaves the interval doubled, at most
\* MaxRetryInterval.
C7_FailedProbeBacksOff ==
    (last.op = "worker_sync" /\ ~last.probed)
        => /\ last.sleep_time = last.retry_before
           /\ last.retry_after = Min(2 * last.retry_before, MaxRetryInterval)

\* C8: an iteration of the sync loop whose probe failed does not lower
\* current_retry_interval.
C8_FailedProbeKeepsInterval ==
    (last.op = "worker_sync" /\ ~last.probed)
        => last.retry_after >= last.retry_before

\* C9: a toggle creates one activity record, in the tier that served it: one
\* row in the store and none in the cache, or one in the cache and none in
\* the store.
C9_OneActivityPerToggle ==
    last.op = "toggle_lamp"
        => /\ last.db_rows + last.cache_rows = 1
           /\ last.tier = "db" => last.db_rows = 1
           /\ last.tier = "cache" => last.cache_rows = 1

\* C10: a facade operation whose probe succeeded and whose store call then
\* failed returns what it returns when the probe itself fails: the cache's
\* result.
C10_LateFailureServedByCache ==
    (last.op \in HAOps /\ last.f.probe /\ AnyFailed(last.f))
        => last.val = last.fallback

\* C11: in the response of POST /lamp/toggle, previous_status is the
\* opposite of status.
C11_PreviousStatusIsOpposite ==
    (last.op = "api_toggle_lamp" /\ ~last.exc)
        => last.previous_status # last.status

\* C12: every daily statistics record the cache holds has
\* total_toggles = on_count + off_count and unique_sessions >= 1.
C12_CacheStatisticsConsistent ==
    \A s \in cache.daily_stats :
        /\ s.total_toggles = s.on_count + s.off_count
        /\ s.unique_sessions >= 1

\* A pull from a store that holds a statistics row has run over a cache that
\* holds one of its own.
C12_Witness ==
    /\ last.op \in SyncOps
    /\ last.pulled
    /\ db.statistics # {}
    /\ \E s \in cache.daily_stats : s.total_toggles > 0

\* C13: every daily statistics record the cache holds has
\* unique_sessions <= total_toggles.
C13_SessionsAtMostToggles ==
    \A s \in cache.daily_stats : s.unique_sessions <= s.total_toggles

\* C14: the cache never holds more than ActivityCap activities; after n cache
\* toggles (beside a store without activities, so that no pull replaces the
\* list, n is the clock) it holds the Min(n, ActivityCap) most recent ones,
\* oldest first; and a read with a limit above the retained count returns
\* all of them, newest first.
C14_ActivityRetentionCapped ==
    /\ Len(cache.activities) <= ActivityCap
    /\ db.activities = << >> =>
          /\ Len(cache.activities) = Min(clock, ActivityCap)
          /\ \A i \in 1..Len(cache.activities) :
                cache.activities[i].timestamp = clock - Len(cache.activities) + i
    /\ (last.op = "cache_get_recent_activities" /\ last.limit > Len(cache.activities))
          => last.val = Reversed(cache.activities)

\* One toggle past the cap, a read with a limit far above it returns
\* ActivityCap activities with the last toggle at the head.
C14_Witness ==
    /\ last.op = "cache_get_recent_activities"
    /\ last.limit > ActivityCap
    /\ clock = ActivityCap + 1
    /\ Len(last.val) = ActivityCap
    /\ last.val[1].timestamp = clock

\* C15: whatever cache toggles and pulls came before, the cache's
\* get_recent_activities returns the activities newest first.
C15_CacheReadsNewestFirst ==
    last.op = "cache_get_recent_activities" =>
        \A i, j \in 1..Len(last.val) :
            i < j => last.val[i].timestamp > last.val[j].timestamp

\* C16: the cache's get_recent_activities(limit) returns exactly
\* Min(limit, retained count) activities, so none for limit 0.
C16_CacheReadLength ==
    last.op = "cache_get_recent_activities" =>
        Len(last.val) = Min(last.limit, Len(cache.activities))

\* The timestamps of a sequence of activities, in its order.
Timestamps(activities) ==
    [i \in 1..Len(activities) |-> activities[i].timestamp]

\* C17: after a pull with every store call succeeding, the cache's state,
\* lifetime counter, activity list and statistics of today are the store's:
\* cache-only values are gone, also when the store has no activities or no
\* statistics row of today.
C17_PullReplacesCache ==
    (last.op \in SyncOps /\ last.pulled /\ ~AnyFailed(last.f)) =>
        /\ cache.current_state.is_on = db.is_on
        /\ cache.lifetime_toggles = RepoGetTotalLifetimeToggles(db, TRUE)
        /\ Timestamps(cache.activities) =
              Timestamps(RepoGetRecentActivities(db, DashboardRecent, TRUE))
        /\ {s.total_toggles : s \in {x \in cache.daily_stats : x.date = today}} =
              {s.total_toggles : s \in RepoGetDailyStatistics(db, today, TRUE)}

\* C18: update_from_database leaves the dirty flag as it was, for the
\* snapshot of a pull whatever its reads returned and for the state-only
\* snapshot of get_current_state; so an iteration that pulls goes on to push
\* exactly when the cache was dirty before it.
C18_SnapshotKeepsDirtyFlag ==
    /\ \A f \in DashOutcomes :
          LET r == RepoGetDashboardData(db, f, today)
          IN  ~r.exc =>
                 CacheUpdateFromDatabase(cache, SnapshotData(r.val)).cache_dirty
                     = cache.cache_dirty
    /\ CacheUpdateFromDatabase(cache,
          [current_state |-> [is_on |-> db.is_on, last_updated |-> db.last_updated,
                              session_id |-> db.client_info]]).cache_dirty
          = cache.cache_dirty
    /\ (last.op \in SyncOps /\ last.pulled) =>
          IF last.raised THEN cache.cache_dirty = last.pre_dirty
          ELSE last.pushed = last.pre_dirty

\* A pull has changed the state of a dirty cache, the push after it has
\* failed, and the cache is still dirty.
C18_Witness ==
    /\ last.op \in SyncOps
    /\ last.pulled
    /\ last.raised
    /\ last.pre_dirty
    /\ cache.cache_dirty
    /\ cache.current_state.is_on # last.pre_cache_is_on

\* C19: with the worker running, the store reachable from some point on and
\* no more toggles, the cache's is_on ends up equal to the store's and stays
\* equal.
C19_CacheConvergesToStore ==
    <>[](cache.current_state.is_on = db.is_on)

\* C20: no step of the cache tier (a cache toggle, a pull's snapshot) makes
\* the cache's lifetime toggle counter smaller.
C20_LifetimeCounterNeverDecreases ==
    [][cache'.lifetime_toggles >= cache.lifetime_toggles]_vars

\* The value of a counter of the cache's statistics record of a day; 0 when
\* the cache holds no record of that day.
CacheDayCount(c, day, field) ==
    IF \E s \in c.daily_stats : s.date = day
    THEN (CHOOSE s \in c.daily_stats : s.date = day)[field]
    ELSE 0

\* C21: one cache toggle negates is_on and returns the new state; appends one
\* activity with previous_state the is_on before the call and action the new
\* state's label; adds 1 to total_toggles of today and to exactly one of
\* on_count (new state on) and off_count (new state off); adds 1 to the
\* lifetime counter; and sets the dirty flag.
C21_CacheToggleEffects ==
    [][last'.op = "cache_toggle_lamp" =>
        LET a == cache'.activities[Len(cache'.activities)]
            new_state == ~cache.current_state.is_on
        IN  /\ cache'.current_state.is_on = new_state
            /\ last'.val.is_on = new_state
            /\ Len(cache.activities) < ActivityCap =>
                  cache'.activities = Append(cache.activities, a)
            /\ a.previous_state = PyBool(cache.current_state.is_on)
            /\ a.action = Label(new_state)
            /\ CacheDayCount(cache', today, "total_toggles")
                  = CacheDayCount(cache, today, "total_toggles") + 1
            /\ CacheDayCount(cache', today, "on_count")
                  = CacheDayCount(cache, today, "on_count") + (IF new_state THEN 1 ELSE 0)
            /\ CacheDayCount(cache', today, "off_count")
                  = CacheDayCount(cache, today, "off_count") + (IF new_state THEN 0 ELSE 1)
            /\ cache'.lifetime_toggles = cache.lifetime_toggles + 1
            /\ cache'.cache_dirty]_vars

\* The second toggle of a day, by session "s2", has turned the lamp off again:
\* the record of the day counts 2 toggles, 1 on, 1 off, 2 sessions.
C21_Witness ==
    /\ last.op = "cache_toggle_lamp"
    /\ last.session_id = "s2"
    /\ ~cache.current_state.is_on
    /\ Len(cache.activities) = 2
    /\ cache.activities[2].previous_state = PyBool(TRUE)
    /\ CacheDayCount(cache, today, "total_toggles") = 2
    /\ CacheDayCount(cache, today, "on_count") = 1
    /\ CacheDayCount(cache, today, "off_count") = 1
    /\ CacheDayCount(cache, today, "unique_sessions") = 2

\* Thread t has finished the operation op.
Done(t, op) == thread[t].pc = "done" /\ thread[t].op = op

\* The threads that have finished a toggle of the cache.
Toggled == {t \in ThreadIds : Done(t, "toggle_lamp")}

\* No thread has called update_from_database.
NoSnapshot ==
    \A t \in ThreadIds :
        thread[t].pc # "idle" => thread[t].op # "update_from_database"

\* C22: the cache's toggle, snapshot application and dashboard read act as if
\* each ran alone at the moment it took the lock: what each returns and
\* leaves is what the whole operation makes of the cache it found.  So a
\* dashboard read sees all or nothing of every toggle (without snapshots: as
\* many activities and counted toggles as the lifetime counter says, and the
\* state that many flips give), and K finished toggles leave the state
\* flipped K times with K activities.
C22_CacheOperationsAtomic ==
    /\ \A t \in ThreadIds :
          /\ Done(t, "toggle_lamp") =>
                LET r == CacheToggleLamp(thread[t].pre, thread[t].session_id,
                                         thread[t].timestamp, today)
                IN  thread[t].post = r.cache /\ thread[t].val = r.val
          /\ Done(t, "get_dashboard_data") =>
                thread[t].val = CacheGetDashboardData(thread[t].pre, today)
          /\ Done(t, "update_from_database") =>
                thread[t].post = CacheUpdateFromDatabase(thread[t].pre, thread[t].db_data)
          /\ (Done(t, "get_dashboard_data") /\ NoSnapshot) =>
                LET v == thread[t].val
                IN  /\ v.today_stats.total_toggles = v.total_lifetime_toggles
                    /\ v.today_stats.on_count + v.today_stats.off_count
                          = v.total_lifetime_toggles
                    /\ Len(v.recent_activities)
                          = Min(v.total_lifetime_toggles, DashboardRecent)
                    /\ v.current_state.is_on = (v.total_lifetime_toggles % 2 = 1)
    /\ (NoSnapshot /\ \A t \in ThreadIds : thread[t].pc \in {"idle", "done"}) =>
          /\ cache.lifetime_toggles = Cardinality(Toggled)
          /\ Len(cache.activities) = Cardinality(Toggled)
          /\ cache.current_state.is_on = (Cardinality(Toggled) % 2 = 1)

\* Two toggles and a dashboard read have run at the same time and finished;
\* the read came between the toggles and saw the first one whole.
C22_Witness ==
    /\ Cardinality(Toggled) = 2
    /\ cache.lifetime_toggles = 2
    /\ \E t \in ThreadIds :
          /\ Done(t, "get_dashboard_data")
          /\ thread[t].val.total_lifetime_toggles = 1
          /\ Len(thread[t].val.recent_activities) = 1
          /\ thread[t].val.current_state.is_on

\* The worker threads whose loop has not ended.
AliveWorkers == {w \in 1..Len(worker) : worker[w].pc # "done"}

\* C23: at most one worker loop is alive at any time, whatever start, stop
\* and the workers have done.
C23_AtMostOneWorker ==
    Cardinality(AliveWorkers) <= 1

\* C24: start_sync_service on a running service creates no worker and
\* changes nothing, stop_sync_service on a stopped service changes nothing;
\* after a start the service is running and after a stop it is not, so the
\* second of two calls in a row finds the state the first one left and
\* keeps it.
C24_StartStopIdempotent ==
    [][/\ (last'.op = "start_sync_service" /\ last.op = "idle") =>
             /\ sync'.is_running
             /\ sync.is_running =>
                   UNCHANGED <<sync, worker, joining, db, cache>>
       /\ (last'.op = "stop_sync_service" /\ last.op = "idle") =>
             /\ ~sync'.is_running
             /\ ~sync.is_running =>
                   UNCHANGED <<sync, worker, joining, db, cache>>]_vars

\* start_sync_service has been called on a service that was running: there
\* is still one worker.
C24_Witness ==
    /\ last.op = "start_sync_service"
    /\ last.was_running
    /\ sync.is_running
    /\ Len(worker) = 1

\* C25: once stop_sync_service has cleared _is_running (and no start
\* follows) the worker enters no new iteration (the loop test lets none
\* begin), a sleeping worker leaves its sleep at its next pass of the sleep
\* loop, that is within a second, and the worker's loop ends.
C25_StopEndsTheWorker ==
    /\ [][~sync.is_running =>
            /\ (worker[1].pc # "sync" => worker'[1].pc # "sync")
            /\ (worker[1].pc = "sleep" /\ worker'[1] # worker[1])
                  => worker'[1].pc = "check"]_vars
    /\ (~sync.is_running) ~> (worker[1].pc = "done")

\* stop_sync_service has been called on the running service while its worker
\* was asleep with more than a second left.
C25_Witness ==
    /\ last.op = "stop_sync_service"
    /\ last.was_running
    /\ ~sync.is_running
    /\ worker[1].pc = "sleep"
    /\ worker[1].left > 1

\* C26: an iteration that fails (its probe fails, or its pull or push
\* raises) does not end the worker's loop: the loop ends only once
\* _is_running is cleared, and while it stays set a failed iteration is
\* followed by another one.
C26_FailureKeepsTheLoop ==
    /\ [](worker[1].pc = "done" => ~sync.is_running)
    /\ (last.op = "worker_sync" /\ (last.raised \/ ~last.probed))
          ~> (worker[1].pc = "sync" \/ ~sync.is_running)

\* An iteration has raised after an earlier one had raised: the interval was
\* already doubled, and the worker sleeps again with the service running.
C26_Witness ==
    /\ last.op = "worker_sync"
    /\ last.raised
    /\ last.retry_before > InitialRetryInterval
    /\ sync.is_running
    /\ worker[1].pc = "sleep"

\* C27: the boolean returned by force_sync tells whether its one iteration
\* succeeded: TRUE exactly when the probe reached the store and the
\* iteration completed without an error, FALSE otherwise.
C27_ForceSyncReportsSuccess ==
    last.op = "force_sync" => (last.ret <=> (last.probed /\ ~last.raised))

\* C28: right after a store-served get_current_state or toggle_lamp of the
\* facade has returned, the cache's is_on is the is_on the store returned.
C28_CacheFollowsStoreServedState ==
    (/\ last.op \in {"get_current_state", "toggle_lamp"}
     /\ ~last.exc
     /\ last.tier = "db")
        => cache.current_state.is_on = last.val.is_on

\* A store-served read has found the cache's is_on different from the
\* store's and has replaced it.
C28_Witness ==
    /\ last.op = "get_current_state"
    /\ ~last.exc
    /\ last.tier = "db"
    /\ last.pre_cache_is_on # last.val.is_on
    /\ cache.current_state.is_on = last.val.is_on

\* C29: every statistics value that get_daily_statistics builds from the
\* cache has total_toggles = on_count + off_count, also while toggles of
\* the cache run in other threads.
C29_ServedStatisticsConsistent ==
    \A t \in ThreadIds :
        Done(t, "get_daily_statistics") =>
            \A s \in thread[t].val : s.total_toggles = s.on_count + s.off_count

\* C30: every activity the facade's get_recent_activities returns, from the
\* store or from the cache, reports as previous_state the label opposite to
\* its action; also an activity of the store that a snapshot brought into
\* the cache.
C30_PreviousStateOppositeOfAction ==
    (last.op = "get_recent_activities" /\ ~last.exc) =>
        \A i \in 1..Len(last.val) :
            /\ last.val[i].previous_state \in {"on", "off"}
            /\ last.val[i].previous_state # last.val[i].action

\* C31: a sync iteration (of the worker or of force_sync) that starts with
\* _db_available true and whose probe succeeds pulls no snapshot and leaves
\* the cache's state, statistics, activities and lifetime counter as they
\* were; one that starts with _db_available false and whose probe succeeds
\* does pull, unless the pull raises.
C31_PullOnlyOnTransition ==
    [][(last'.op \in {"worker_sync", "force_sync"} /\ last'.probed) =>
          /\ sync.db_available =>
                /\ ~last'.pulled
                /\ cache'.current_state = cache.current_state
                /\ cache'.daily_stats = cache.daily_stats
                /\ cache'.activities = cache.activities
                /\ cache'.lifetime_toggles = cache.lifetime_toggles
          /\ ~sync.db_available => (last'.pulled \/ last'.raised)]_vars

\* An iteration has started with _db_available true on a cache whose state
\* differs from the store's, has reached the store, and has not pulled.
C31_Witness ==
    /\ last.op \in {"worker_sync", "force_sync"}
    /\ last.pre_db_available
    /\ last.probed
    /\ ~last.raised
    /\ ~last.pulled
    /\ last.pre_cache_is_on # last.pre_db_is_on
    /\ cache.current_state.is_on = last.pre_cache_is_on

\* C32: after a sync iteration of the worker or of force_sync,
\* _db_available (the database_available of get_sync_status) is true exactly
\* when the iteration's probe succeeded and neither its pull nor its push
\* raised.
C32_AvailableIffIterationSucceeded ==
    last.op \in {"worker_sync", "force_sync"} =>
        (sync.db_available <=> (last.probed /\ ~last.raised))

\* An iteration has reached the store and pulled, which set the flag, and
\* its push has raised: the flag is cleared again.
C32_Witness ==
    /\ last.op \in {"worker_sync", "force_sync"}
    /\ last.probed
    /\ last.pulled
    /\ last.raised
    /\ ~sync.db_available

\* C33: after a toggle of the cache, the unique_sessions of today's record
\* is the number of distinct session ids that have toggled this cache since
\* it was created, on whatever day they did, also when a pull was applied to
\* the cache in between.  hist.toggled collects the session ids of the calls.
C33_UniqueSessionsAllTime ==
    last.op = "cache_toggle_lamp" =>
        \E s \in cache.daily_stats :
            /\ s.date = today
            /\ s.unique_sessions = Cardinality(hist.toggled)

\* Two sessions have toggled the cache, the first of them on an earlier day,
\* with a pull applied to the cache before the last toggle.
C33_Witness ==
    /\ last.op = "cache_toggle_lamp"
    /\ hist.toggled = SessionIds
    /\ sync.db_available
    /\ today > 1
    /\ \E s \in cache.daily_stats : s.date = today /\ s.total_toggles = 1

\* The activity list holds the activity a toggle created at time ts.
HasActivityOf(activities, ts) ==
    \E i \in 1..Len(activities) :
        activities[i].timestamp = ts /\ activities[i].id.src = "cache"

\* Thread u's toggle came between the export and the mark_cache_clean of
\* thread t's push: its activity is not in the exported payload, and it was
\* in the cache when the push marked it clean.
ToggledDuringPush(t, u) ==
    /\ Done(t, "sync_to_database")
    /\ thread[t].marked
    /\ Done(u, "toggle_lamp")
    /\ ~HasActivityOf(thread[t].cache_data.activities, thread[u].timestamp)
    /\ HasActivityOf(thread[t].post.activities, thread[u].timestamp)

\* C34: when a toggle of the cache comes between the export and the
\* mark_cache_clean of a push, the cache is dirty once both have completed.
C34_InterleavedWriteStaysDirty ==
    \A t \in ThreadIds, u \in ThreadIds :
        ToggledDuringPush(t, u) => cache.cache_dirty

\* C35: at most one thread is inside _perform_sync at any time: a call of
\* force_sync and the worker's iteration never run the sync steps together.
C35_IterationsExclusive ==
    Cardinality({t \in ThreadIds : InPerformSync(t)}) <= 1

\* C36: the is_on and the change_count that a cache-served get_current_state
\* or toggle_lamp of the facade returns belong to one state of the cache:
\* the one the call's first cache call saw or left, or the one its second
\* cache call saw; for a toggle, change_count is the lifetime count right
\* after that toggle.
C36_FallbackReadsOneState ==
    \A t \in ThreadIds :
        /\ Done(t, "ha_get_current_state") =>
              \/ [is_on |-> thread[t].val.is_on,
                  lifetime_toggles |-> thread[t].val.change_count] = thread[t].first
              \/ [is_on |-> thread[t].val.is_on,
                  lifetime_toggles |-> thread[t].val.change_count] = thread[t].second
        /\ Done(t, "ha_toggle_lamp") =>
              thread[t].val.change_count = thread[t].first.lifetime_toggles

\* The sum of total_toggles over the statistics records of days 1..d.
RECURSIVE CacheTotalUpTo(_, _)
CacheTotalUpTo(c, d) ==
    IF d = 0 THEN 0
    ELSE CacheDayCount(c, d, "total_toggles") + CacheTotalUpTo(c, d - 1)

\* C37: in a cache that only its own toggles have changed since it was
\* created (no sync iteration has run, so no snapshot was applied; nothing
\* resets it), is_on holds exactly when the lifetime counter is odd, the
\* lifetime counter is the sum of total_toggles over all days, and the
\* newest retained activity's action is the label of is_on.
C37_ToggleOnlyCacheInvariants ==
    sync.last_sync_attempt = Never =>
        /\ cache.current_state.is_on <=> (cache.lifetime_toggles % 2 = 1)
        /\ cache.lifetime_toggles = CacheTotalUpTo(cache, MaxDay)
        /\ \A s \in cache.daily_stats : s.date \in Days
        /\ cache.activities # << >> =>
              cache.activities[Len(cache.activities)].action
                  = Label(cache.current_state.is_on)

\* The cache has been toggled on two days and never synced.
C37_Witness ==
    /\ sync.last_sync_attempt = Never
    /\ cache.lifetime_toggles = 2
    /\ Cardinality(cache.daily_stats) = 2
    /\ Len(cache.activities) = 2

\* C38: _current_retry_interval is always one of 5, 10, 20, 40, 80, 160 and
\* 300 seconds, whatever failing and succeeding iterations have run.
C38_RetryIntervalInLadder ==
    sync.current_retry_interval \in {5, 10, 20, 40, 80, 160, 300}

\* An iteration has raised with the interval already at its ceiling, and the
\* interval stays there.
C38_Witness ==
    /\ last.op = "worker_sync"
    /\ last.raised
    /\ last.retry_before = MaxRetryInterval
    /\ sync.current_retry_interval = MaxRetryInterval

\* C39: a toggle_lamp of the facade that the store served changes nothing
\* of the cache but its current state: the dirty flag, the activities, the
\* statistics, the session set and the lifetime counter stay; and the dirty
\* flag goes from clear to set only in a toggle that the cache served.
C39_StoreToggleTouchesStateOnly ==
    [][/\ (last'.op = "toggle_lamp" /\ last'.tier = "db") =>
             cache' = [cache EXCEPT !.current_state = cache'.current_state]
       /\ (~cache.cache_dirty /\ cache'.cache_dirty) =>
             (last'.op = "toggle_lamp" /\ last'.tier = "cache")]_vars

\* The store has served a toggle over a dirty cache that holds an activity
\* of its own: the cache's state follows the store, the rest is as it was.
C39_Witness ==
    /\ last.op = "toggle_lamp"
    /\ last.tier = "db"
    /\ last.cache_rows = 0
    /\ cache.cache_dirty
    /\ Len(cache.activities) = 1
    /\ cache.lifetime_toggles = 1
    /\ cache.current_state.last_updated = clock

====
